---- MODULE Spec2Model ----
(***************************************************************************)
(* A model of the kaf server: the connection loop of server.Server, the    *)
(* frame reader kafka.MessageParser.ReadRequest and the response encoders  *)
(* of kafka.RequestHandler.  Bytes are the integers 0..255, a byte slice   *)
(* is a sequence of bytes, and Go's 0-based half-open slice s[lo:hi] is    *)
(* SubSeq(s, lo+1, hi).                                                    *)
(***************************************************************************)
EXTENDS Integers, Sequences, FiniteSets, TLC

(***************************************************************************)
(* Program constants (internal/kafka/protocol/constants.go).               *)
(***************************************************************************)
ApiVersionsKey == 18
DescribeTopicPartitionsKey == 75
ErrorNone == 0
ErrorUnsupportedVersion == 35
ErrorUnknownTopic == 3
MinSupportedVersion == 0
MaxSupportedVersion == 4
ApiVersionsMinVersion == 0
ApiVersionsMaxVersion == 4
DescribeTopicMinVersion == 0
DescribeTopicMaxVersion == 0

(***************************************************************************)
(* Fixed-width integers.  TLC's integers are 32-bit signed, so an int32 is *)
(* an integer of -2^31..2^31-1 and a uint32 is kept as its two 16-bit      *)
(* halves [hi, lo].                                                        *)
(***************************************************************************)
MinInt32 == -2147483647 - 1

Zeros(n) == [i \in 1..n |-> 0]

\* encoding/binary: BigEndian.Uint16(b)
BigEndianUint16(b) == b[1] * 256 + b[2]

\* encoding/binary: BigEndian.PutUint16(b, v), v a uint16
BigEndianPutUint16(v) == <<v \div 256, v % 256>>

\* encoding/binary: BigEndian.Uint32(b), as the halves of the uint32
BigEndianUint32(b) == [hi |-> b[1] * 256 + b[2], lo |-> b[3] * 256 + b[4]]

\* encoding/binary: BigEndian.PutUint32(b, v), v a uint32 given by its halves
BigEndianPutUint32(v) == <<v.hi \div 256, v.hi % 256, v.lo \div 256, v.lo % 256>>

\* Go's conversion int16(u) of a uint16: two's complement, no bit changes
Int16OfUint16(u) == IF u >= 32768 THEN u - 65536 ELSE u

\* Go's conversion uint16(i) of an int16
Uint16OfInt16(i) == i % 65536

\* Go's conversion int32(u) of a uint32
Int32OfUint32(u) ==
    IF u.hi >= 32768 THEN (u.hi - 65536) * 65536 + u.lo ELSE u.hi * 65536 + u.lo

\* fault: a conversion that keeps the low 16 bits only
Uint32OfInt32MutLow16(i) == [hi |-> 0, lo |-> i % 65536]

\* Go's conversion uint32(i) of an int32
Uint32OfInt32(i) == [hi |-> (i \div 65536) % 65536, lo |-> i % 65536]

\* int32 subtraction i - 8 with Go's wrap-around
Int32Sub8(i) == IF i < MinInt32 + 8 THEN (i - MinInt32) + 2147483640 ELSE i - 8

(***************************************************************************)
(* protocol.Request, and the values a call can end with: "ok" (it returned *)
(* nil), "error" (it returned an error), "panic" (a Go runtime panic, which*)
(* no goroutine of the server recovers: the process aborts) and, for a     *)
(* read, "wait" (it is blocked until the peer sends more or closes).       *)
(***************************************************************************)
NoRequest == [Length |-> 0, ApiKey |-> 0, ApiVersion |-> 0, CorrelationID |-> 0,
              Payload |-> <<>>, valid |-> FALSE]

Drop(s, n) == SubSeq(s, n + 1, Len(s))

\* fault: ReadRequest taking Length, not Length-8, for the payload's length
ReadRequestMutLengthIsPayload(buf, eof) ==
    IF Len(buf) < 12
    THEN [st |-> IF eof THEN "error" ELSE "wait", req |-> NoRequest, used |-> 0]
    ELSE LET length == Int32OfUint32(BigEndianUint32(SubSeq(buf, 1, 4)))
             n == length
         IN  IF n < 0
             THEN [st |-> "panic", req |-> NoRequest, used |-> 12]
             ELSE IF Len(buf) - 12 < n
             THEN [st |-> IF eof THEN "error" ELSE "wait", req |-> NoRequest, used |-> 0]
             ELSE [st |-> "ok", used |-> 12 + n,
                   req |-> [Length |-> length,
                            ApiKey |-> Int16OfUint16(BigEndianUint16(SubSeq(buf, 5, 6))),
                            ApiVersion |-> Int16OfUint16(BigEndianUint16(SubSeq(buf, 7, 8))),
                            CorrelationID |-> Int32OfUint32(BigEndianUint32(SubSeq(buf, 9, 12))),
                            Payload |-> SubSeq(buf, 13, 12 + n),
                            valid |-> TRUE]]

\* fault: ReadRequest with a single Read in place of io.ReadFull, which
\* returns the bytes that arrived before the peer closed
ReadRequestMutShortRead(buf, eof) ==
    IF Len(buf) < 12
    THEN [st |-> IF eof THEN "error" ELSE "wait", req |-> NoRequest, used |-> 0]
    ELSE LET length == Int32OfUint32(BigEndianUint32(SubSeq(buf, 1, 4)))
             n == Int32Sub8(length)
             got == IF Len(buf) - 12 < n THEN Len(buf) - 12 ELSE n
         IN  IF n < 0
             THEN [st |-> "panic", req |-> NoRequest, used |-> 12]
             ELSE IF Len(buf) - 12 < n /\ ~eof
             THEN [st |-> "wait", req |-> NoRequest, used |-> 0]
             ELSE [st |-> "ok", used |-> 12 + got,
                   req |-> [Length |-> length,
                            ApiKey |-> Int16OfUint16(BigEndianUint16(SubSeq(buf, 5, 6))),
                            ApiVersion |-> Int16OfUint16(BigEndianUint16(SubSeq(buf, 7, 8))),
                            CorrelationID |-> Int32OfUint32(BigEndianUint32(SubSeq(buf, 9, 12))),
                            Payload |-> SubSeq(buf, 13, 12 + got),
                            valid |-> TRUE]]

\* MessageParser.ReadRequest on a connection whose unread bytes are buf and
\* whose peer has (eof) or has not closed its side.  used: the bytes consumed.
ReadRequest(buf, eof) ==
    IF Len(buf) < 4        \* binary.Read of Length
    THEN [st |-> IF eof THEN "error" ELSE "wait", req |-> NoRequest, used |-> 0]
    ELSE IF Len(buf) < 12  \* binary.Read of ApiKey, ApiVersion, CorrelationID
    THEN [st |-> IF eof THEN "error" ELSE "wait", req |-> NoRequest, used |-> 0]
    ELSE LET length == Int32OfUint32(BigEndianUint32(SubSeq(buf, 1, 4)))
             n == Int32Sub8(length)
         IN  IF n < 0      \* make([]byte, n): makeslice: len out of range
             THEN [st |-> "panic", req |-> NoRequest, used |-> 12]
             ELSE IF Len(buf) - 12 < n   \* io.ReadFull of the payload
             THEN [st |-> IF eof THEN "error" ELSE "wait", req |-> NoRequest, used |-> 0]
             ELSE [st |-> "ok", used |-> 12 + n,
                   req |-> [Length |-> length,
                            ApiKey |-> Int16OfUint16(BigEndianUint16(SubSeq(buf, 5, 6))),
                            ApiVersion |-> Int16OfUint16(BigEndianUint16(SubSeq(buf, 7, 8))),
                            CorrelationID |-> Int32OfUint32(BigEndianUint32(SubSeq(buf, 9, 12))),
                            Payload |-> SubSeq(buf, 13, 12 + n),
                            valid |-> TRUE]]

(***************************************************************************)
(* RequestHandler: the response encoders.  Each returns [st, data]: data   *)
(* is the byte slice handed to sendRawResponse, when st = "ok".            *)
(***************************************************************************)
\* fault: handleApiVersionsRequest announcing max version 3 for api key 18
handleApiVersionsRequestMutMaxVersion(req) ==
    [st |-> "ok",
     data |-> BigEndianPutUint32(Uint32OfInt32(req.CorrelationID))
              \o BigEndianPutUint16(ErrorNone)
              \o <<3>>
              \o BigEndianPutUint16(Uint16OfInt16(ApiVersionsKey))
              \o BigEndianPutUint16(Uint16OfInt16(ApiVersionsMinVersion))
              \o BigEndianPutUint16(Uint16OfInt16(ApiVersionsMaxVersion - 1))
              \o <<0>>
              \o BigEndianPutUint16(Uint16OfInt16(DescribeTopicPartitionsKey))
              \o BigEndianPutUint16(Uint16OfInt16(DescribeTopicMinVersion))
              \o BigEndianPutUint16(Uint16OfInt16(DescribeTopicMaxVersion))
              \o <<0>>
              \o BigEndianPutUint32([hi |-> 0, lo |-> 0])
              \o <<0>>]

\* fault: handleApiVersionsRequest without the tag buffer of the api key entries
handleApiVersionsRequestMutNoEntryTags(req) ==
    [st |-> "ok",
     data |-> BigEndianPutUint32(Uint32OfInt32(req.CorrelationID))
              \o BigEndianPutUint16(ErrorNone)
              \o <<3>>
              \o BigEndianPutUint16(Uint16OfInt16(ApiVersionsKey))
              \o BigEndianPutUint16(Uint16OfInt16(ApiVersionsMinVersion))
              \o BigEndianPutUint16(Uint16OfInt16(ApiVersionsMaxVersion))
              \o BigEndianPutUint16(Uint16OfInt16(DescribeTopicPartitionsKey))
              \o BigEndianPutUint16(Uint16OfInt16(DescribeTopicMinVersion))
              \o BigEndianPutUint16(Uint16OfInt16(DescribeTopicMaxVersion))
              \o BigEndianPutUint32([hi |-> 0, lo |-> 0])
              \o <<0>>]

\* handleApiVersionsRequest: the 26-byte response
handleApiVersionsRequest(req) ==
    [st |-> "ok",
     data |-> BigEndianPutUint32(Uint32OfInt32(req.CorrelationID))
              \o BigEndianPutUint16(ErrorNone)
              \o <<3>>
              \o BigEndianPutUint16(Uint16OfInt16(ApiVersionsKey))
              \o BigEndianPutUint16(Uint16OfInt16(ApiVersionsMinVersion))
              \o BigEndianPutUint16(Uint16OfInt16(ApiVersionsMaxVersion))
              \o <<0>>
              \o BigEndianPutUint16(Uint16OfInt16(DescribeTopicPartitionsKey))
              \o BigEndianPutUint16(Uint16OfInt16(DescribeTopicMinVersion))
              \o BigEndianPutUint16(Uint16OfInt16(DescribeTopicMaxVersion))
              \o <<0>>
              \o BigEndianPutUint32([hi |-> 0, lo |-> 0])
              \o <<0>>]

\* sendErrorResponse: correlation id + error code
sendErrorResponse(correlationID, errorCode) ==
    [st |-> "ok",
     data |-> BigEndianPutUint32(Uint32OfInt32(correlationID))
              \o BigEndianPutUint16(errorCode)]

\* sendResponse of a protocol.Response with a nil Payload
sendResponse(correlationID, errorCode) ==
    [st |-> "ok",
     data |-> BigEndianPutUint32(Uint32OfInt32(correlationID))
              \o BigEndianPutUint16(errorCode)]

\* fault: a fallback that echoes the payload after the error code
handleGenericRequestMutEchoesPayload(req) ==
    [st |-> "ok",
     data |-> BigEndianPutUint32(Uint32OfInt32(req.CorrelationID))
              \o BigEndianPutUint16(ErrorNone) \o req.Payload]

\* handleGenericRequest
handleGenericRequest(req) == sendResponse(req.CorrelationID, ErrorNone)

(***************************************************************************)
(* handleDescribeTopicPartitionsRequest.  The state of the encoder is      *)
(* [st, offset, response, responseOffset]: the read position in the        *)
(* payload, the response buffer (len = cap, as make gives it) and the      *)
(* write position in it.  A step applied to a state that is not "ok"       *)
(* leaves it as it is.                                                     *)
(***************************************************************************)
\* fault: a buffer that is never expanded
ExpandIfNeededMutNever(s, n) == s

\* "if responseOffset+n > len(response) { response = 2*len(response) }"
ExpandIfNeeded(s, n) ==
    IF s.st = "ok" /\ s.responseOffset + n > Len(s.response)
    THEN [s EXCEPT !.response = s.response \o Zeros(Len(s.response))]
    ELSE s

\* a store of bytes at response[responseOffset:responseOffset+len(bytes)]:
\* out of the buffer's bounds it is a runtime panic
Store(s, bytes) ==
    IF s.st # "ok" THEN s
    ELSE IF s.responseOffset + Len(bytes) > Len(s.response)
    THEN [s EXCEPT !.st = "panic"]
    ELSE [s EXCEPT
            !.response = SubSeq(s.response, 1, s.responseOffset) \o bytes
                         \o Drop(s.response, s.responseOffset + Len(bytes)),
            !.responseOffset = s.responseOffset + Len(bytes)]

\* "responseOffset += n" without a store
Advance(s, n) ==
    IF s.st # "ok" THEN s ELSE [s EXCEPT !.responseOffset = s.responseOffset + n]

\* lines 82-130: the client id, its tag buffer, the topics array length, and
\* the response header
DescribeTopicHeader(req) ==
    LET p == req.Payload
        fail(st) == [st |-> st, offset |-> 0, response |-> <<>>,
                     responseOffset |-> 0, topicArrayLength |-> 0]
    IN  IF 0 >= Len(p) THEN fail("error")
        ELSE IF 2 > Len(p) THEN fail("panic")               \* Payload[0:2]
        ELSE LET clientIDLength == BigEndianUint16(SubSeq(p, 1, 2))
                 offset1 == 2 + clientIDLength
             IN  IF offset1 >= Len(p) THEN fail("error")
                 ELSE IF offset1 + 1 >= Len(p) THEN fail("error")
                 ELSE LET topicArrayLength == p[offset1 + 2] - 1
                      IN  IF topicArrayLength < 0 THEN fail("error")
                          ELSE [st |-> "ok",
                                offset |-> offset1 + 2,
                                topicArrayLength |-> topicArrayLength,
                                response |->
                                    BigEndianPutUint32(Uint32OfInt32(req.CorrelationID))
                                    \o <<0>>
                                    \o BigEndianPutUint32([hi |-> 0, lo |-> 0])
                                    \o <<(topicArrayLength + 1) % 256>>
                                    \o Zeros(2 + 40 * topicArrayLength),
                                responseOffset |-> 10]

\* fault: a topic entry whose partitions array is null (byte 0), not empty
EncodeTopicMutNullPartitions(s, topicName) ==
    LET s1 == Store(ExpandIfNeeded(s, 2), BigEndianPutUint16(ErrorUnknownTopic))
        s2 == Store(Store(ExpandIfNeeded(s1, 1 + Len(topicName)),
                          <<(Len(topicName) + 1) % 256>>),
                    topicName)
        s3 == Advance(ExpandIfNeeded(s2, 16), 16)
        s4 == Store(ExpandIfNeeded(s3, 1), <<0>>)
        s5 == Store(ExpandIfNeeded(s4, 1), <<0>>)
        s6 == Store(ExpandIfNeeded(s5, 4), BigEndianPutUint32([hi |-> 0, lo |-> 3576]))
    IN  Store(ExpandIfNeeded(s6, 1), <<0>>)

\* lines 155-226: one topic of the response
EncodeTopic(s, topicName) ==
    LET s1 == Store(ExpandIfNeeded(s, 2), BigEndianPutUint16(ErrorUnknownTopic))
        s2 == Store(Store(ExpandIfNeeded(s1, 1 + Len(topicName)),
                          <<(Len(topicName) + 1) % 256>>),
                    topicName)
        s3 == Advance(ExpandIfNeeded(s2, 16), 16)
        s4 == Store(ExpandIfNeeded(s3, 1), <<0>>)
        s5 == Store(ExpandIfNeeded(s4, 1), <<1>>)
        s6 == Store(ExpandIfNeeded(s5, 4), BigEndianPutUint32([hi |-> 0, lo |-> 3576]))
    IN  Store(ExpandIfNeeded(s6, 1), <<0>>)

\* lines 132-227: one iteration of the loop over the requested topics
DescribeTopicStep(p, s) ==
    IF s.st # "ok" THEN s
    ELSE IF s.offset >= Len(p) THEN [s EXCEPT !.st = "error"]
    ELSE LET topicNameLength == p[s.offset + 1] - 1
             offset1 == s.offset + 1
         IN  IF offset1 + topicNameLength > Len(p) THEN [s EXCEPT !.st = "error"]
             ELSE IF topicNameLength < 0                    \* Payload[offset:offset-1]
             THEN [s EXCEPT !.st = "panic"]
             ELSE LET topicName == SubSeq(p, offset1 + 1, offset1 + topicNameLength)
                      offset2 == offset1 + topicNameLength
                      offset3 == IF offset2 < Len(p) /\ p[offset2 + 1] = 0
                                 THEN offset2 + 1 ELSE offset2
                  IN  EncodeTopic([s EXCEPT !.offset = offset3], topicName)

\* the iterations lo <= i < hi of the loop, in order (split in halves, which
\* keeps the depth of the evaluation logarithmic in their number)
RECURSIVE DescribeTopicLoop(_, _, _, _)
DescribeTopicLoop(p, s, lo, hi) ==
    IF lo >= hi \/ s.st # "ok" THEN s
    ELSE IF hi = lo + 1 THEN DescribeTopicStep(p, s)
    ELSE LET mid == (lo + hi) \div 2
             half == DescribeTopicLoop(p, s, lo, mid)
         IN  DescribeTopicLoop(p, half, mid, hi)

\* fault: a handler that answers with a cursor when the request has bytes
\* after its last topic entry
handleDescribeTopicPartitionsRequestMutReadsCursor(req) ==
    LET h == DescribeTopicHeader(req)
        s0 == DescribeTopicLoop(req.Payload, h, 0, h.topicArrayLength)
        s1 == Store(ExpandIfNeeded(s0, 1),
                    IF s0.st = "ok" /\ s0.offset < Len(req.Payload) THEN <<1>> ELSE <<255>>)
        s2 == Store(ExpandIfNeeded(s1, 1), <<0>>)
    IN  IF s2.st # "ok" THEN [st |-> s2.st, data |-> <<>>]
        ELSE IF s2.responseOffset > Len(s2.response) THEN [st |-> "panic", data |-> <<>>]
        ELSE [st |-> "ok", data |-> SubSeq(s2.response, 1, s2.responseOffset)]

\* lines 229-253: the null cursor, the tag buffer, and the trim of the buffer
handleDescribeTopicPartitionsRequest(req) ==
    LET h == DescribeTopicHeader(req)
        s0 == DescribeTopicLoop(req.Payload, h, 0, h.topicArrayLength)
        s1 == Store(ExpandIfNeeded(s0, 1), <<255>>)
        s2 == Store(ExpandIfNeeded(s1, 1), <<0>>)
    IN  IF s2.st # "ok" THEN [st |-> s2.st, data |-> <<>>]
        ELSE IF s2.responseOffset > Len(s2.response) THEN [st |-> "panic", data |-> <<>>]
        ELSE [st |-> "ok", data |-> SubSeq(s2.response, 1, s2.responseOffset)]

(***************************************************************************)
(* HandleRequest and sendRawResponse.                                      *)
(***************************************************************************)
\* fault: HandleRequest without its version check
DispatchMutNoVersionCheck(req) ==
    IF req.ApiKey = ApiVersionsKey THEN handleApiVersionsRequest(req)
    ELSE IF req.ApiKey = DescribeTopicPartitionsKey
    THEN handleDescribeTopicPartitionsRequest(req)
    ELSE handleGenericRequest(req)

\* fault: HandleRequest checking the version against its upper bound only
DispatchMutNoLowerBound(req) ==
    IF req.ApiVersion > MaxSupportedVersion
    THEN sendErrorResponse(req.CorrelationID, ErrorUnsupportedVersion)
    ELSE DispatchMutNoVersionCheck(req)

\* the response encoder HandleRequest picks
Dispatch(req) ==
    IF req.ApiVersion < MinSupportedVersion \/ req.ApiVersion > MaxSupportedVersion
    THEN sendErrorResponse(req.CorrelationID, ErrorUnsupportedVersion)
    ELSE IF req.ApiKey = ApiVersionsKey THEN handleApiVersionsRequest(req)
    ELSE IF req.ApiKey = DescribeTopicPartitionsKey
    THEN handleDescribeTopicPartitionsRequest(req)
    ELSE handleGenericRequest(req)

\* fault: a length prefix that counts its own four bytes
sendRawResponseMutCountsItself(data) ==
    BigEndianPutUint32(Uint32OfInt32(Len(data) + 4)) \o data

\* sendRawResponse: the bytes written to a connection that takes them, the
\* int32 length of data and then data
sendRawResponse(data) ==
    BigEndianPutUint32(Uint32OfInt32(Len(data))) \o data

\* fault: a handler that sends the response header it has built when the
\* parsing of the payload fails
HandleRequestMutSendsPartial(writable, req) ==
    LET r == Dispatch(req)
    IN  IF r.st = "error" /\ writable
        THEN [st |-> "error",
              out |-> sendRawResponse(BigEndianPutUint32(Uint32OfInt32(req.CorrelationID))
                                      \o <<0>>)]
        ELSE IF r.st # "ok" THEN [st |-> r.st, out |-> <<>>]
        ELSE IF ~writable THEN [st |-> "error", out |-> <<>>]
        ELSE [st |-> "ok", out |-> sendRawResponse(r.data)]

\* HandleRequest on a connection that takes writes (writable) or fails them:
\* [st, out], out the bytes written
HandleRequest(writable, req) ==
    LET r == Dispatch(req)
    IN  IF r.st # "ok" THEN [st |-> r.st, out |-> <<>>]
        ELSE IF ~writable THEN [st |-> "error", out |-> <<>>]
        ELSE [st |-> "ok", out |-> sendRawResponse(r.data)]

(***************************************************************************)
(* The peers: the request frames they send.                                *)
(***************************************************************************)
\* the bytes of an int16 and of an int32 on the wire
WireInt16(i) == BigEndianPutUint16(i % 65536)
WireInt32(i) == <<(i \div 16777216) % 256, (i \div 65536) % 256,
                  (i \div 256) % 256, i % 256>>

\* a frame that declares length bytes after the length field
FrameOf(length, apiKey, apiVersion, correlationID, payload) ==
    WireInt32(length) \o WireInt16(apiKey) \o WireInt16(apiVersion)
    \o WireInt32(correlationID) \o payload

\* a frame whose length field is right
Frame(apiKey, apiVersion, correlationID, payload) ==
    FrameOf(8 + Len(payload), apiKey, apiVersion, correlationID, payload)

\* a topic name of n bytes
TopicName(seed, n) == [i \in 1..n |-> 97 + ((seed + i) % 26)]

\* the concatenation of parts[lo..hi]
RECURSIVE ConcatRange(_, _, _)
ConcatRange(parts, lo, hi) ==
    IF lo > hi THEN <<>>
    ELSE IF lo = hi THEN parts[lo]
    ELSE LET mid == (lo + hi) \div 2
         IN  ConcatRange(parts, lo, mid) \o ConcatRange(parts, mid + 1, hi)

Concat(parts) == ConcatRange(parts, 1, Len(parts))

\* the topic entries: each a compact string and an empty tag buffer
TopicEntries(names) ==
    Concat([i \in 1..Len(names) |-> <<Len(names[i]) + 1>> \o names[i] \o <<0>>])

\* the part of a DescribeTopicPartitions request up to its last topic entry
DescribeTopicsPrefix(clientID, names) ==
    WireInt16(Len(clientID)) \o clientID \o <<0>>
    \o <<Len(names) + 1>> \o TopicEntries(names)

\* a well-formed DescribeTopicPartitions request: the request header's client
\* id and tag buffer, the topics, the partition limit, a null cursor and the
\* tag buffer
DescribeTopicsPayload(clientID, names) ==
    DescribeTopicsPrefix(clientID, names) \o WireInt32(100) \o <<255, 0>>

\* Kafka's unsigned varint: seven bits per byte, the low ones first, the
\* high bit set on every byte but the last
RECURSIVE UnsignedVarint(_)
UnsignedVarint(n) ==
    IF n < 128 THEN <<n>> ELSE <<128 + (n % 128)>> \o UnsignedVarint(n \div 128)

\* the topic entries as a Kafka client encodes them: compact strings whose
\* length + 1 is an unsigned varint
VarintTopicEntries(names) ==
    Concat([i \in 1..Len(names) |-> UnsignedVarint(Len(names[i]) + 1) \o names[i] \o <<0>>])

\* a DescribeTopicPartitions request as a Kafka client encodes it: the
\* compact array's length + 1 is an unsigned varint too
VarintDescribeTopicsPayload(clientID, names) ==
    WireInt16(Len(clientID)) \o clientID \o <<0>>
    \o UnsignedVarint(Len(names) + 1) \o VarintTopicEntries(names)
    \o WireInt32(100) \o <<255, 0>>

(***************************************************************************)
(* Bounds of the model.                                                    *)
(***************************************************************************)
\* connections the listener hands out
MaxConns == 2
\* frames a peer sends on one connection
MaxFrames == 2
\* topics of the enumerated DescribeTopicPartitions requests
MaxTopics == 2
\* name lengths of the enumerated topics (longer names: LongNameLens)
MaxNameLen == 2
\* client id lengths of the enumerated DescribeTopicPartitions requests
MaxClientIDLen == 1

Conns == 1..MaxConns

(***************************************************************************)
(* The state: per connection, the goroutine running handleConnection, the  *)
(* bytes in flight and what the peer has done; and the client registry.    *)
(***************************************************************************)
VARIABLES
    pc,        \* pc[c]: "none" (not accepted yet), "read" (in or before ReadRequest),
               \*   "handle" (before HandleRequest), "closed" (handleConnection
               \*   returned and closed the connection), "panic" (it panicked)
    peer,      \* peer[c]: "up", "fin" (closed after what it sent), "rst" (reset)
    inbuf,     \* inbuf[c]: the bytes the peer sent that the server has not read
    outbuf,    \* outbuf[c]: the bytes the server wrote to the connection
    request,   \* request[c]: the request ReadRequest returned last
    lastFrame, \* lastFrame[c]: the bytes ReadRequest took from the connection for it
    response,  \* response[c]: what the last HandleRequest returned and wrote
    nframes,   \* nframes[c]: the frames the peer has sent
    clients,   \* Server.clients: remote address -> connection
    sent,      \* sent[c]: every byte the peer has sent, in the order it sent them
    shutdown,  \* Server.shutdown is closed
    listener,  \* Server.listener: "open" or "closed"
    wg,        \* Server.wg: its counter
    acceptor,  \* the goroutine of acceptConnections: where it is, and the
               \*   connection Accept has returned to it
    stopper,   \* stopper[t]: where the call t of Server.Stop is
    connOpen,  \* connOpen[c]: the server has the connection and has not closed it
    addr,      \* addr[c]: the remote address of the connection
    exitlog    \* exitlog[c]: what the deferred function of its handler has done

vars == <<pc, peer, inbuf, outbuf, request, lastFrame, response, nframes, clients, sent,
          shutdown, listener, wg, acceptor, stopper, connOpen, addr, exitlog>>

NoConn == 0
NoResponse == [st |-> "none", out |-> <<>>]

\* conn.RemoteAddr().String()
RemoteAddr(c) == addr[c]

\* the calls of Server.Stop: the one main makes, and one more
Stoppers == {"first", "second"}

\* Start has returned: the listener is open, acceptConnections is counted in
\* the wait group and is at the top of its loop, Stop is not called
Started ==
    /\ shutdown = FALSE
    /\ listener = "open"
    /\ acceptor = [pc |-> "check", conn |-> NoConn]
    /\ stopper = [t \in Stoppers |-> "idle"]

\* a panic in any goroutine ends the process
Aborted ==
    \/ \E c \in Conns : pc[c] = "panic"
    \/ \E t \in Stoppers : stopper[t] = "panic"

\* the handler goroutine of the connection is in its loop
Running(c) == pc[c] \in {"check", "read", "handle"}

Init ==
    /\ pc = [c \in Conns |-> "none"]
    /\ peer = [c \in Conns |-> "up"]
    /\ inbuf = [c \in Conns |-> <<>>]
    /\ outbuf = [c \in Conns |-> <<>>]
    /\ request = [c \in Conns |-> NoRequest]
    /\ lastFrame = [c \in Conns |-> <<>>]
    /\ response = [c \in Conns |-> NoResponse]
    /\ nframes = [c \in Conns |-> 0]
    /\ clients = [a \in Conns |-> NoConn]
    /\ sent = [c \in Conns |-> <<>>]
    /\ Started
    /\ wg = 1
    /\ connOpen = [c \in Conns |-> FALSE]
    /\ addr = [c \in Conns |-> c]
    /\ exitlog = [c \in Conns |-> <<>>]

\* acceptConnections, one iteration: Accept, registerClient, go handleConnection
AcceptConnection(c) ==
    /\ ~Aborted
    /\ pc[c] = "none"
    /\ pc' = [pc EXCEPT ![c] = "read"]
    /\ clients' = [clients EXCEPT ![RemoteAddr(c)] = c]
    /\ wg' = wg + 1
    /\ connOpen' = [connOpen EXCEPT ![c] = TRUE]
    /\ UNCHANGED <<peer, inbuf, outbuf, request, lastFrame, response, nframes, sent>>
    /\ UNCHANGED <<shutdown, listener, acceptor, stopper, addr, exitlog>>

\* handleConnection's deferred function: conn.Close, unregisterClient, wg.Done
Exit(c) ==
    /\ pc' = [pc EXCEPT ![c] = "closed"]
    /\ connOpen' = [connOpen EXCEPT ![c] = FALSE]
    /\ clients' = [clients EXCEPT ![RemoteAddr(c)] = NoConn]
    /\ wg' = wg - 1
    /\ exitlog' = [exitlog EXCEPT ![c] = <<"close", "unregister", "done">>]

\* handleConnection, lines 165-172: ReadRequest and the return on its error
HandlerRead(c) ==
    /\ ~Aborted
    /\ pc[c] = "read"
    /\ LET r == ReadRequest(inbuf[c], peer[c] # "up")
       IN  /\ r.st # "wait"
           /\ inbuf' = [inbuf EXCEPT ![c] = Drop(inbuf[c], r.used)]
           /\ CASE r.st = "ok" ->
                     /\ pc' = [pc EXCEPT ![c] = "handle"]
                     /\ request' = [request EXCEPT ![c] = r.req]
                     /\ lastFrame' = [lastFrame EXCEPT ![c] = SubSeq(inbuf[c], 1, r.used)]
                     /\ UNCHANGED <<clients, wg, connOpen, exitlog>>
                [] r.st = "error" ->
                     /\ Exit(c)
                     /\ UNCHANGED <<request, lastFrame>>
                [] r.st = "panic" ->
                     /\ pc' = [pc EXCEPT ![c] = "panic"]
                     /\ UNCHANGED <<request, lastFrame, clients, wg, connOpen, exitlog>>
    /\ UNCHANGED <<peer, outbuf, response, nframes, sent>>
    /\ UNCHANGED <<shutdown, listener, acceptor, stopper, addr>>

\* fault: a handler whose response overtakes the ones written before it
HandlerHandleMutOvertakes(c) ==
    /\ ~Aborted
    /\ pc[c] = "handle"
    /\ LET h == HandleRequest(peer[c] # "rst", request[c])
       IN  /\ response' = [response EXCEPT ![c] = h]
           /\ outbuf' = [outbuf EXCEPT ![c] = h.out \o outbuf[c]]
           /\ CASE h.st = "ok" ->
                     /\ pc' = [pc EXCEPT ![c] = "read"]
                     /\ UNCHANGED <<clients, wg, connOpen, exitlog>>
                [] h.st = "error" -> Exit(c)
                [] h.st = "panic" ->
                     /\ pc' = [pc EXCEPT ![c] = "panic"]
                     /\ UNCHANGED <<clients, wg, connOpen, exitlog>>
    /\ UNCHANGED <<peer, inbuf, request, lastFrame, nframes, sent>>
    /\ UNCHANGED <<shutdown, listener, acceptor, stopper, addr>>

\* fault: a handler that keeps its response buffer between requests and
\* sends the response it built first on the connection
HandlerHandleMutKeepsResponse(c) ==
    /\ ~Aborted
    /\ pc[c] = "handle"
    /\ LET new == HandleRequest(peer[c] # "rst", request[c])
           h == IF new.st = "ok" /\ response[c].st = "ok" THEN response[c] ELSE new
       IN  /\ response' = [response EXCEPT ![c] = h]
           /\ outbuf' = [outbuf EXCEPT ![c] = outbuf[c] \o h.out]
           /\ CASE h.st = "ok" ->
                     /\ pc' = [pc EXCEPT ![c] = "read"]
                     /\ UNCHANGED <<clients, wg, connOpen, exitlog>>
                [] h.st = "error" -> Exit(c)
                [] h.st = "panic" ->
                     /\ pc' = [pc EXCEPT ![c] = "panic"]
                     /\ UNCHANGED <<clients, wg, connOpen, exitlog>>
    /\ UNCHANGED <<peer, inbuf, request, lastFrame, nframes, sent>>
    /\ UNCHANGED <<shutdown, listener, acceptor, stopper, addr>>

\* handleConnection, lines 174-178: HandleRequest and the return on its error
HandlerHandle(c) ==
    /\ ~Aborted
    /\ pc[c] = "handle"
    /\ LET h == HandleRequest(peer[c] # "rst", request[c])
       IN  /\ response' = [response EXCEPT ![c] = h]
           /\ outbuf' = [outbuf EXCEPT ![c] = outbuf[c] \o h.out]
           /\ CASE h.st = "ok" ->
                     /\ pc' = [pc EXCEPT ![c] = "read"]
                     /\ UNCHANGED <<clients, wg, connOpen, exitlog>>
                [] h.st = "error" -> Exit(c)
                [] h.st = "panic" ->
                     /\ pc' = [pc EXCEPT ![c] = "panic"]
                     /\ UNCHANGED <<clients, wg, connOpen, exitlog>>
    /\ UNCHANGED <<peer, inbuf, request, lastFrame, nframes, sent>>
    /\ UNCHANGED <<shutdown, listener, acceptor, stopper, addr>>

(***************************************************************************)
(* The peers.                                                              *)
(***************************************************************************)
\* the peer closes its side: the server reads what is in flight, then EOF
PeerClose(c) ==
    /\ ~Aborted
    /\ Running(c)
    /\ peer[c] = "up"
    /\ peer' = [peer EXCEPT ![c] = "fin"]
    /\ UNCHANGED <<pc, inbuf, outbuf, request, lastFrame, response, nframes, clients, sent>>
    /\ UNCHANGED <<shutdown, listener, wg, acceptor, stopper, connOpen, addr, exitlog>>

\* the peer resets the connection: what is in flight is lost, and the
\* server's reads and writes fail
PeerReset(c) ==
    /\ ~Aborted
    /\ Running(c)
    /\ peer[c] \in {"up", "fin"}
    /\ peer' = [peer EXCEPT ![c] = "rst"]
    /\ inbuf' = [inbuf EXCEPT ![c] = <<>>]
    /\ UNCHANGED <<pc, outbuf, request, lastFrame, response, nframes, clients, sent>>
    /\ UNCHANGED <<shutdown, listener, wg, acceptor, stopper, connOpen, addr, exitlog>>

\* the frames a peer of Spec may send: a served request, an unsupported
\* version, a handler error, and a frame too short for its header
ServerFrames ==
    { Frame(ApiVersionsKey, 4, 1, <<>>),
      Frame(DescribeTopicPartitionsKey, 5, 2, <<0>>),
      Frame(DescribeTopicPartitionsKey, 0, 3, <<>>),
      FrameOf(4, ApiVersionsKey, 0, -4, <<>>) }

\* the peer sends a whole frame
PeerSend(c) ==
    /\ ~Aborted
    /\ Running(c)
    /\ peer[c] = "up"
    /\ nframes[c] < MaxFrames
    /\ \E f \in ServerFrames :
          /\ inbuf' = [inbuf EXCEPT ![c] = inbuf[c] \o f]
          /\ sent' = [sent EXCEPT ![c] = sent[c] \o f]
    /\ nframes' = [nframes EXCEPT ![c] = nframes[c] + 1]
    /\ UNCHANGED <<pc, peer, outbuf, request, lastFrame, response, clients>>
    /\ UNCHANGED <<shutdown, listener, wg, acceptor, stopper, connOpen, addr, exitlog>>

\* the peer sends the beginning of a frame and closes
PeerTruncate(c) ==
    /\ ~Aborted
    /\ Running(c)
    /\ peer[c] = "up"
    /\ nframes[c] < MaxFrames
    /\ \E k \in {2, 8, 12} :
          LET part == SubSeq(Frame(ApiVersionsKey, 0, 9, <<0>>), 1, k)
          IN  /\ inbuf' = [inbuf EXCEPT ![c] = inbuf[c] \o part]
              /\ sent' = [sent EXCEPT ![c] = sent[c] \o part]
    /\ nframes' = [nframes EXCEPT ![c] = nframes[c] + 1]
    /\ peer' = [peer EXCEPT ![c] = "fin"]
    /\ UNCHANGED <<pc, outbuf, request, lastFrame, response, clients>>
    /\ UNCHANGED <<shutdown, listener, wg, acceptor, stopper, connOpen, addr, exitlog>>

Next ==
    \E c \in Conns :
        \/ AcceptConnection(c)
        \/ HandlerRead(c)
        \/ HandlerHandle(c)
        \/ PeerSend(c)
        \/ PeerTruncate(c)
        \/ PeerClose(c)
        \/ PeerReset(c)

Spec == Init /\ [][Next]_vars

(***************************************************************************)
(* The single-connection specification: one accepted connection whose peer *)
(* has sent a byte stream drawn from the enumerated inputs, and may close  *)
(* or reset the connection at any moment.                                  *)
(***************************************************************************)
MaxInt32 == 2147483647
Int16Values == {-32767 - 1, -1, 0, 1, 2, 3, 4, 5, 32767}
Int32Values == {MinInt32, -1, 0, 1, 305419896, MaxInt32}
ApiKeyValues == {ApiVersionsKey, DescribeTopicPartitionsKey, -1, 0, 1, 32767}

\* the lengths beyond MaxNameLen: around the sizes at which the response
\* buffer is expanded, around the one-byte varint limit, and the longest
\* name a length byte can announce
LongNameLens == {13, 14, 15, 39, 40, 91, 92, 126, 127, 128, 251, 252, 254}

ClientIDs == {[i \in 1..n |-> 106 + i] : n \in 0..MaxClientIDLen}
Names == {TopicName(seed, n) : seed \in {0, 1}, n \in 0..MaxNameLen}

RECURSIVE SeqsUpTo(_, _)
SeqsUpTo(S, n) ==
    IF n = 0 THEN {<<>>}
    ELSE LET shorter == SeqsUpTo(S, n - 1)
         IN  shorter \cup {Append(q, x) : q \in {t \in shorter : Len(t) = n - 1}, x \in S}

\* every header: api key, api version and correlation id, on two payloads
HeaderFrames ==
    {Frame(k, v, id, p) : k \in ApiKeyValues, v \in Int16Values, id \in Int32Values,
                          p \in {<<>>, DescribeTopicsPayload(<<>>, <<TopicName(0, 1)>>)}}

\* the topic lists of the well-formed DescribeTopicPartitions requests
TopicLists ==
    SeqsUpTo(Names, MaxTopics)
    \cup {[i \in 1..k |-> TopicName(i, n)] : k \in 1..MaxTopics, n \in LongNameLens}
    \cup {[i \in 1..k |-> TopicName(i, i % 2)] : k \in {253, 254}}

\* well-formed DescribeTopicPartitions requests
DescribeFrames ==
    {Frame(DescribeTopicPartitionsKey, 0, 7, DescribeTopicsPayload(id, names)) :
        id \in ClientIDs, names \in TopicLists}

\* the DescribeTopicPartitions requests of a Kafka client for the same
\* topics: they differ from DescribeFrames where a length or a count is 127
\* or more
VarintDescribeFrames ==
    {Frame(DescribeTopicPartitionsKey, 0, 7, VarintDescribeTopicsPayload(id, names)) :
        id \in ClientIDs, names \in TopicLists}

\* DescribeTopicPartitions requests without the fields after the topics, or
\* with other bytes there
DescribeTailFrames ==
    {Frame(DescribeTopicPartitionsKey, 0, 7, DescribeTopicsPrefix(<<>>, names) \o tail) :
        names \in SeqsUpTo(Names, 1), tail \in {<<>>, <<0>>, <<0, 0, 0, 1, 1, 97, 0>>}}

\* malformed DescribeTopicPartitions payloads: every cut of a well-formed
\* one, a null client id, empty length bytes, a missing topic tag buffer
MalformedPayloads ==
    LET p == DescribeTopicsPayload(<<107>>, <<TopicName(0, 2), TopicName(1, 1)>>)
    IN  {SubSeq(p, 1, k) : k \in 0..(Len(p) - 1)}
        \cup { <<255, 255, 0, 2, 2, 97, 0, 0, 0, 0, 100, 255, 0>>,
               <<0, 0, 0, 0>>, <<0, 0, 0, 0, 0>>,
               <<0, 0, 0, 2, 0>>, <<0, 0, 0, 2, 0, 0>>, <<0, 0, 0, 3, 2, 97, 0, 0>>,
               <<0, 0, 0, 3, 2, 97, 2, 98>>, <<0, 0, 0, 3, 2, 97, 0>>,
               <<0, 0, 0, 2, 9, 97, 98, 0>>, <<0, 1, 0, 2, 2, 97, 0>> }

MalformedFrames ==
    {Frame(DescribeTopicPartitionsKey, v, 7, p) : v \in {0, 4}, p \in MalformedPayloads}

\* frames whose length field is not the length of what follows in the frame
MisframedStreams ==
    {FrameOf(l, ApiVersionsKey, 0, 7, p) \o q :
        l \in {MinInt32, MinInt32 + 7, MinInt32 + 8, -1, 0, 4, 7, 8, 9, MaxInt32},
        p \in {<<>>, <<0>>},
        q \in {<<>>, Frame(ApiVersionsKey, 0, 8, <<>>)}}

\* the frames of the streams of several requests
StreamFrames ==
    { Frame(ApiVersionsKey, 0, 1, <<>>),
      Frame(ApiVersionsKey, 5, 2, <<1, 2>>),
      Frame(DescribeTopicPartitionsKey, -1, 3, <<>>),
      Frame(1, 32767, 4, <<0>>),
      Frame(1, 0, 5, <<9>>),
      Frame(DescribeTopicPartitionsKey, 0, 6,
            DescribeTopicsPayload(<<107>>, <<TopicName(0, 2)>>)),
      Frame(DescribeTopicPartitionsKey, 0, 7, <<0, 0>>) }

Streams == {Concat(q) : q \in SeqsUpTo(StreamFrames, MaxFrames)}

\* streams that end inside a frame: every cut of two streams
TruncatedStreams ==
    LET a == Frame(ApiVersionsKey, 0, 1, <<>>)
                \o Frame(DescribeTopicPartitionsKey, 0, 6,
                         DescribeTopicsPayload(<<107>>, <<TopicName(0, 2)>>))
        b == Frame(1, 5, 2, <<1, 2, 3>>) \o FrameOf(4, ApiVersionsKey, 0, 7, <<>>)
    IN  {SubSeq(a, 1, k) : k \in 0..(Len(a) - 1)} \cup {SubSeq(b, 1, k) : k \in 0..(Len(b) - 1)}

CodecStreams ==
    HeaderFrames \cup DescribeFrames \cup VarintDescribeFrames
    \cup DescribeTailFrames \cup MalformedFrames
    \cup MisframedStreams \cup Streams \cup TruncatedStreams

CodecInit ==
    /\ pc = [c \in Conns |-> IF c = 1 THEN "read" ELSE "none"]
    /\ peer = [c \in Conns |-> "up"]
    /\ inbuf \in {[c \in Conns |-> IF c = 1 THEN b ELSE <<>>] : b \in CodecStreams}
    /\ outbuf = [c \in Conns |-> <<>>]
    /\ request = [c \in Conns |-> NoRequest]
    /\ lastFrame = [c \in Conns |-> <<>>]
    /\ response = [c \in Conns |-> NoResponse]
    /\ nframes = [c \in Conns |-> 0]
    /\ addr = [c \in Conns |-> c]
    /\ clients = [a \in Conns |-> IF a = RemoteAddr(1) THEN 1 ELSE NoConn]
    /\ sent = inbuf
    /\ Started
    /\ wg = 2
    /\ connOpen = [c \in Conns |-> c = 1]
    /\ exitlog = [c \in Conns |-> <<>>]

CodecNext ==
    \E c \in Conns :
        \/ HandlerRead(c)
        \/ HandlerHandle(c)
        \/ PeerClose(c)
        \/ PeerReset(c)

CodecSpec == CodecInit /\ [][CodecNext]_vars

(***************************************************************************)
(* The two-connection specification: two accepted connections, each with a *)
(* stream of requests sent and its peer waiting for the answers, whose     *)
(* handlers run in any interleaving.                                       *)
(***************************************************************************)
\* requests of the three kinds that are answered: by an encoder, by the
\* version check, and by the fallback
PairFrames ==
    { Frame(ApiVersionsKey, 4, 1, <<>>),
      Frame(DescribeTopicPartitionsKey, 5, 2, <<0>>),
      Frame(1, 0, 5, <<9>>) }

PairStreams == {Concat(q) : q \in SeqsUpTo(PairFrames, MaxFrames)}

PairInit ==
    /\ pc = [c \in Conns |-> IF c \in {1, 2} THEN "read" ELSE "none"]
    /\ peer = [c \in Conns |-> "up"]
    /\ inbuf \in {[c \in Conns |-> IF c = 1 THEN a ELSE IF c = 2 THEN b ELSE <<>>] :
                     a \in PairStreams, b \in PairStreams}
    /\ outbuf = [c \in Conns |-> <<>>]
    /\ request = [c \in Conns |-> NoRequest]
    /\ lastFrame = [c \in Conns |-> <<>>]
    /\ response = [c \in Conns |-> NoResponse]
    /\ nframes = [c \in Conns |-> 0]
    /\ addr = [c \in Conns |-> c]
    /\ clients = [a \in Conns |-> IF a \in {RemoteAddr(1), RemoteAddr(2)} THEN a ELSE NoConn]
    /\ sent = inbuf
    /\ Started
    /\ wg = 3
    /\ connOpen = [c \in Conns |-> c \in {1, 2}]
    /\ exitlog = [c \in Conns |-> <<>>]

PairNext ==
    \E c \in Conns :
        \/ HandlerRead(c)
        \/ HandlerHandle(c)

PairSpec == PairInit /\ [][PairNext]_vars

(***************************************************************************)
(* What the properties speak of.                                           *)

(***************************************************************************)
(* The life of the server: acceptConnections, handleConnection and Stop,   *)
(* one step for each place where the goroutines can interleave.            *)
(***************************************************************************)
LifeUnchanged == UNCHANGED <<peer, inbuf, outbuf, request, lastFrame, response, nframes, sent>>

\* acceptConnections, lines 100-106: the select on the shutdown channel; the
\* deferred wg.Done of line 97 runs on the return
acceptCheck ==
    /\ ~Aborted
    /\ acceptor.pc = "check"
    /\ IF shutdown
       THEN /\ acceptor' = [acceptor EXCEPT !.pc = "done"]
            /\ wg' = wg - 1
       ELSE /\ acceptor' = [acceptor EXCEPT !.pc = "accept"]
            /\ UNCHANGED wg
    /\ UNCHANGED <<pc, clients, shutdown, listener, stopper, connOpen, addr, exitlog>>
    /\ LifeUnchanged

\* a remote address is free for a new connection when every earlier
\* connection from it is gone: reset by its peer, or closed by the server
AddressFree(a, c) ==
    \A d \in Conns \ {c} :
        (pc[d] # "none" /\ addr[d] = a) => (peer[d] = "rst" \/ ~connOpen[d])

\* acceptConnections, line 108: Accept returns a connection; connections are
\* numbered in the order of their arrival, and a new address is the next one
acceptAccept(c, a) ==
    /\ ~Aborted
    /\ acceptor.pc = "accept"
    /\ listener = "open"
    /\ pc[c] = "none"
    /\ \A d \in Conns : d < c => pc[d] # "none"
    /\ a <= c
    /\ AddressFree(a, c)
    /\ pc' = [pc EXCEPT ![c] = "accepted"]
    /\ addr' = [addr EXCEPT ![c] = a]
    /\ connOpen' = [connOpen EXCEPT ![c] = TRUE]
    /\ acceptor' = [pc |-> "register", conn |-> c]
    /\ UNCHANGED <<clients, shutdown, listener, wg, stopper, exitlog>>
    /\ LifeUnchanged

\* acceptConnections, lines 109-118: Accept fails on the closed listener
acceptError ==
    /\ ~Aborted
    /\ acceptor.pc = "accept"
    /\ listener = "closed"
    /\ IF shutdown
       THEN /\ acceptor' = [acceptor EXCEPT !.pc = "done"]
            /\ wg' = wg - 1
       ELSE /\ acceptor' = [acceptor EXCEPT !.pc = "check"]
            /\ UNCHANGED wg
    /\ UNCHANGED <<pc, clients, shutdown, listener, stopper, connOpen, addr, exitlog>>
    /\ LifeUnchanged

\* s.clients[addr] = conn, under the mutex
registerClient(a, c) == clients' = [clients EXCEPT ![a] = c]

\* delete(s.clients, addr), under the mutex
unregisterClient(a) == clients' = [clients EXCEPT ![a] = NoConn]

\* acceptConnections, lines 121-122
acceptRegister ==
    /\ ~Aborted
    /\ acceptor.pc = "register"
    /\ registerClient(RemoteAddr(acceptor.conn), acceptor.conn)
    /\ acceptor' = [acceptor EXCEPT !.pc = "spawn"]
    /\ UNCHANGED <<pc, shutdown, listener, wg, stopper, connOpen, addr, exitlog>>
    /\ LifeUnchanged

\* acceptConnections, lines 125-126: wg.Add(1) and the go statement
acceptSpawn ==
    /\ ~Aborted
    /\ acceptor.pc = "spawn"
    /\ wg' = wg + 1
    /\ pc' = [pc EXCEPT ![acceptor.conn] = "check"]
    /\ acceptor' = [pc |-> "check", conn |-> NoConn]
    /\ UNCHANGED <<clients, shutdown, listener, stopper, connOpen, addr, exitlog>>
    /\ LifeUnchanged

\* handleConnection, lines 157-163: the select on the shutdown channel
handleConnectionCheck(c) ==
    /\ ~Aborted
    /\ pc[c] = "check"
    /\ pc' = [pc EXCEPT ![c] = IF shutdown THEN "close" ELSE "read"]
    /\ UNCHANGED <<clients, shutdown, listener, wg, acceptor, stopper, connOpen, addr, exitlog>>
    /\ LifeUnchanged

\* a read on a connection the server has closed fails at once
ReadFrom(c) ==
    IF connOpen[c]
    THEN ReadRequest(inbuf[c], peer[c] # "up")
    ELSE [st |-> "error", req |-> NoRequest, used |-> 0]

\* handleConnection, lines 166-172: ReadRequest and the return on its error
handleConnectionRead(c) ==
    /\ ~Aborted
    /\ pc[c] = "read"
    /\ LET r == ReadFrom(c)
       IN  /\ r.st # "wait"
           /\ inbuf' = [inbuf EXCEPT ![c] = Drop(inbuf[c], r.used)]
           /\ CASE r.st = "ok" ->
                     /\ pc' = [pc EXCEPT ![c] = "handle"]
                     /\ request' = [request EXCEPT ![c] = r.req]
                     /\ lastFrame' = [lastFrame EXCEPT ![c] = SubSeq(inbuf[c], 1, r.used)]
                [] r.st = "error" ->
                     /\ pc' = [pc EXCEPT ![c] = "close"]
                     /\ UNCHANGED <<request, lastFrame>>
                [] r.st = "panic" ->
                     /\ pc' = [pc EXCEPT ![c] = "panic"]
                     /\ UNCHANGED <<request, lastFrame>>
    /\ UNCHANGED <<peer, outbuf, response, nframes, sent>>
    /\ UNCHANGED <<clients, shutdown, listener, wg, acceptor, stopper, connOpen, addr, exitlog>>

\* handleConnection, lines 175-178: HandleRequest and the return on its error
handleConnectionHandle(c) ==
    /\ ~Aborted
    /\ pc[c] = "handle"
    /\ LET h == HandleRequest(connOpen[c] /\ peer[c] # "rst", request[c])
       IN  /\ response' = [response EXCEPT ![c] = h]
           /\ outbuf' = [outbuf EXCEPT ![c] = outbuf[c] \o h.out]
           /\ pc' = [pc EXCEPT ![c] = CASE h.st = "ok" -> "check"
                                        [] h.st = "error" -> "close"
                                        [] h.st = "panic" -> "panic"]
    /\ UNCHANGED <<peer, inbuf, request, lastFrame, nframes, sent>>
    /\ UNCHANGED <<clients, shutdown, listener, wg, acceptor, stopper, connOpen, addr, exitlog>>

\* fault: a deferred function that signals the wait group first and leaves
\* the connection open
handleConnectionCloseMutDoneFirst(c) ==
    /\ ~Aborted
    /\ pc[c] = "close"
    /\ wg' = wg - 1
    /\ exitlog' = [exitlog EXCEPT ![c] = Append(exitlog[c], "done")]
    /\ pc' = [pc EXCEPT ![c] = "unregister"]
    /\ UNCHANGED <<clients, shutdown, listener, acceptor, stopper, connOpen, addr>>
    /\ LifeUnchanged

\* the deferred function of handleConnection, line 151: conn.Close()
handleConnectionClose(c) ==
    /\ ~Aborted
    /\ pc[c] = "close"
    /\ connOpen' = [connOpen EXCEPT ![c] = FALSE]
    /\ exitlog' = [exitlog EXCEPT ![c] = Append(exitlog[c], "close")]
    /\ pc' = [pc EXCEPT ![c] = "unregister"]
    /\ UNCHANGED <<clients, shutdown, listener, wg, acceptor, stopper, addr>>
    /\ LifeUnchanged

\* the deferred function of handleConnection, line 152: s.unregisterClient(addr)
handleConnectionUnregister(c) ==
    /\ ~Aborted
    /\ pc[c] = "unregister"
    /\ unregisterClient(RemoteAddr(c))
    /\ exitlog' = [exitlog EXCEPT ![c] = Append(exitlog[c], "unregister")]
    /\ pc' = [pc EXCEPT ![c] = "done"]
    /\ UNCHANGED <<shutdown, listener, wg, acceptor, stopper, connOpen, addr>>
    /\ LifeUnchanged

\* the deferred function of handleConnection, line 153: s.wg.Done()
handleConnectionDone(c) ==
    /\ ~Aborted
    /\ pc[c] = "done"
    /\ wg' = wg - 1
    /\ exitlog' = [exitlog EXCEPT ![c] = Append(exitlog[c], "done")]
    /\ pc' = [pc EXCEPT ![c] = "closed"]
    /\ UNCHANGED <<clients, shutdown, listener, acceptor, stopper, connOpen, addr>>
    /\ LifeUnchanged

\* Stop, line 70: close(s.shutdown); closing a closed channel panics
StopCloseShutdown(t) ==
    /\ ~Aborted
    /\ stopper[t] = "idle"
    /\ t = "second" => stopper["first"] # "idle"
    /\ IF shutdown
       THEN /\ stopper' = [stopper EXCEPT ![t] = "panic"]
            /\ UNCHANGED shutdown
       ELSE /\ stopper' = [stopper EXCEPT ![t] = "listener"]
            /\ shutdown' = TRUE
    /\ UNCHANGED <<pc, clients, listener, wg, acceptor, connOpen, addr, exitlog>>
    /\ LifeUnchanged

\* Stop, lines 73-77: s.listener.Close()
StopCloseListener(t) ==
    /\ ~Aborted
    /\ stopper[t] = "listener"
    /\ listener' = "closed"
    /\ stopper' = [stopper EXCEPT ![t] = "clients"]
    /\ UNCHANGED <<pc, clients, shutdown, wg, acceptor, connOpen, addr, exitlog>>
    /\ LifeUnchanged

\* the connections in the registry
Registered == {clients[a] : a \in Conns} \ {NoConn}

\* Stop, lines 80-86: conn.Close() on every registered connection, under
\* the mutex
StopCloseClients(t) ==
    /\ ~Aborted
    /\ stopper[t] = "clients"
    /\ connOpen' = [c \in Conns |-> connOpen[c] /\ c \notin Registered]
    /\ stopper' = [stopper EXCEPT ![t] = "wait"]
    /\ UNCHANGED <<pc, clients, shutdown, listener, wg, acceptor, addr, exitlog>>
    /\ LifeUnchanged

\* fault: a Stop that returns without waiting for the goroutines
StopWaitMutNoWait(t) ==
    /\ ~Aborted
    /\ stopper[t] = "wait"
    /\ stopper' = [stopper EXCEPT ![t] = "returned"]
    /\ UNCHANGED <<pc, clients, shutdown, listener, wg, acceptor, connOpen, addr, exitlog>>
    /\ LifeUnchanged

\* Stop, lines 89-92: s.wg.Wait() and the return
StopWait(t) ==
    /\ ~Aborted
    /\ stopper[t] = "wait"
    /\ wg = 0
    /\ stopper' = [stopper EXCEPT ![t] = "returned"]
    /\ UNCHANGED <<pc, clients, shutdown, listener, wg, acceptor, connOpen, addr, exitlog>>
    /\ LifeUnchanged

\* the frame a peer of LifeSpec may send: a served request; its handler
\* returns an error when the connection is closed under it
LifeFrames == { Frame(ApiVersionsKey, 4, 1, <<>>) }

\* the peer sends a whole frame, one request at a time; the requests of a
\* run come from one connection
LifePeerSend(c) ==
    /\ ~Aborted
    /\ Running(c)
    /\ peer[c] = "up"
    /\ inbuf[c] = <<>>
    /\ \A d \in Conns \ {c} : nframes[d] = 0
    /\ nframes[c] < MaxFrames
    /\ \E f \in LifeFrames :
          /\ inbuf' = [inbuf EXCEPT ![c] = inbuf[c] \o f]
          /\ sent' = [sent EXCEPT ![c] = sent[c] \o f]
    /\ nframes' = [nframes EXCEPT ![c] = nframes[c] + 1]
    /\ UNCHANGED <<pc, peer, outbuf, request, lastFrame, response, clients>>
    /\ UNCHANGED <<shutdown, listener, wg, acceptor, stopper, connOpen, addr, exitlog>>

LifeNext ==
    \/ acceptCheck
    \/ \E c \in Conns, a \in Conns : acceptAccept(c, a)
    \/ acceptError
    \/ acceptRegister
    \/ acceptSpawn
    \/ \E c \in Conns :
          \/ handleConnectionCheck(c)
          \/ handleConnectionRead(c)
          \/ handleConnectionHandle(c)
          \/ handleConnectionClose(c)
          \/ handleConnectionUnregister(c)
          \/ handleConnectionDone(c)
          \/ LifePeerSend(c)
          \/ PeerClose(c)
    \/ \E t \in Stoppers :
          \/ StopCloseShutdown(t)
          \/ StopCloseListener(t)
          \/ StopCloseClients(t)
          \/ StopWait(t)

LifeSpec == Init /\ [][LifeNext]_vars


(***************************************************************************)
(* The configuration-driven variant: ConnectionHandler, Config and the     *)
(* writers of package kafka.                                               *)
(***************************************************************************)
\* NewConfig: the default SupportedAPIVersions
SupportedAPIVersions ==
    [apiKey \in {18, 75} |->
        IF apiKey = 18 THEN [MinVersion |-> 3, MaxVersion |-> 4]
        ELSE [MinVersion |-> 0, MaxVersion |-> 0]]

\* Config.IsAPIVersionSupported
IsAPIVersionSupported(apiKey, apiVersion) ==
    IF apiKey \notin DOMAIN SupportedAPIVersions THEN FALSE
    ELSE LET apiInfo == SupportedAPIVersions[apiKey]
         IN  apiVersion >= apiInfo.MinVersion /\ apiVersion <= apiInfo.MaxVersion

\* kafka.ReadRequestHeader: the four fields, then make([]byte, header.Size-8)
\* and the read of as many bytes, which it drops; the same steps as
\* MessageParser.ReadRequest
ReadRequestHeader(buf, eof) == ReadRequest(buf, eof)

\* kafka.WriteAPIVersionsResponse: the length prefix and the 26 bytes
WriteAPIVersionsResponse(resp) ==
    BigEndianPutUint32(Uint32OfInt32(26))
    \o BigEndianPutUint32(Uint32OfInt32(resp.Header.CorrelationID))
    \o BigEndianPutUint16(Uint16OfInt16(resp.Header.ErrorCode))
    \o <<3>>
    \o BigEndianPutUint16(18) \o BigEndianPutUint16(3) \o BigEndianPutUint16(4) \o <<0>>
    \o BigEndianPutUint16(75) \o BigEndianPutUint16(0) \o BigEndianPutUint16(0) \o <<0>>
    \o BigEndianPutUint32(Uint32OfInt32(0))
    \o <<0>>

\* kafka.WriteErrorResponse: the size 6, the correlation id, the error code
WriteErrorResponse(correlationID, errorCode) ==
    BigEndianPutUint32(Uint32OfInt32(6))
    \o BigEndianPutUint32(Uint32OfInt32(correlationID))
    \o BigEndianPutUint16(Uint16OfInt16(errorCode))

\* ConnectionHandler.handleAPIVersionsRequest: what it writes
handleAPIVersionsRequest(header) ==
    IF ~IsAPIVersionSupported(header.ApiKey, header.ApiVersion)
    THEN WriteErrorResponse(header.CorrelationID, ErrorUnsupportedVersion)
    ELSE WriteAPIVersionsResponse(
             [Header |-> [CorrelationID |-> header.CorrelationID, ErrorCode |-> ErrorNone],
              APIKeys |-> <<[APIKey |-> 18, MinVersion |-> 3, MaxVersion |-> 4]>>,
              ThrottleTime |-> 0])

\* HandleConnection, lines 174-178: ReadRequestHeader, and the return on its
\* error through the deferred conn.Close()
ConfigRead(c) ==
    /\ ~Aborted
    /\ pc[c] = "read"
    /\ LET r == ReadRequestHeader(inbuf[c], peer[c] # "up")
       IN  /\ r.st # "wait"
           /\ inbuf' = [inbuf EXCEPT ![c] = Drop(inbuf[c], r.used)]
           /\ CASE r.st = "ok" ->
                     /\ pc' = [pc EXCEPT ![c] = "handle"]
                     /\ request' = [request EXCEPT ![c] = r.req]
                     /\ lastFrame' = [lastFrame EXCEPT ![c] = SubSeq(inbuf[c], 1, r.used)]
                     /\ UNCHANGED connOpen
                [] r.st = "error" ->
                     /\ pc' = [pc EXCEPT ![c] = "closed"]
                     /\ connOpen' = [connOpen EXCEPT ![c] = FALSE]
                     /\ UNCHANGED <<request, lastFrame>>
                [] r.st = "panic" ->
                     /\ pc' = [pc EXCEPT ![c] = "panic"]
                     /\ UNCHANGED <<request, lastFrame, connOpen>>
    /\ UNCHANGED <<peer, outbuf, response, nframes, sent, clients>>
    /\ UNCHANGED <<shutdown, listener, wg, acceptor, stopper, addr, exitlog>>

\* HandleConnection, lines 184-190: the switch on the api key; the writers'
\* errors are dropped and the loop goes on
ConfigHandle(c) ==
    /\ ~Aborted
    /\ pc[c] = "handle"
    /\ LET data == IF request[c].ApiKey = ApiVersionsKey
                   THEN handleAPIVersionsRequest(request[c])
                   ELSE WriteErrorResponse(request[c].CorrelationID,
                                           ErrorUnsupportedVersion)
           h == IF peer[c] # "rst" THEN [st |-> "ok", out |-> data]
                ELSE [st |-> "error", out |-> <<>>]
       IN  /\ response' = [response EXCEPT ![c] = h]
           /\ outbuf' = [outbuf EXCEPT ![c] = outbuf[c] \o h.out]
    /\ pc' = [pc EXCEPT ![c] = "read"]
    /\ UNCHANGED <<peer, inbuf, request, lastFrame, nframes, sent, clients>>
    /\ UNCHANGED <<shutdown, listener, wg, acceptor, stopper, connOpen, addr, exitlog>>

\* one connection of the variant, with what its peer sends
ConfigInit ==
    /\ pc = [c \in Conns |-> IF c = 1 THEN "read" ELSE "none"]
    /\ peer = [c \in Conns |-> "up"]
    /\ inbuf \in {[c \in Conns |-> IF c = 1 THEN b ELSE <<>>] : b \in HeaderFrames \cup Streams}
    /\ outbuf = [c \in Conns |-> <<>>]
    /\ request = [c \in Conns |-> NoRequest]
    /\ lastFrame = [c \in Conns |-> <<>>]
    /\ response = [c \in Conns |-> NoResponse]
    /\ nframes = [c \in Conns |-> 0]
    /\ addr = [c \in Conns |-> c]
    /\ clients = [a \in Conns |-> NoConn]
    /\ sent = inbuf
    /\ Started
    /\ wg = 0
    /\ connOpen = [c \in Conns |-> c = 1]
    /\ exitlog = [c \in Conns |-> <<>>]

ConfigNext ==
    \E c \in Conns :
        \/ ConfigRead(c)
        \/ ConfigHandle(c)
        \/ PeerClose(c)
        \/ PeerReset(c)

ConfigSpec == ConfigInit /\ [][ConfigNext]_vars

(***************************************************************************)
\* HandleRequest has returned for request[c], and response[c] is its result
Handled(c) == pc[c] # "handle" /\ response[c].st # "none"

\* HandleRequest wrote a response to request[c]
Answered(c) == Handled(c) /\ response[c].st = "ok"

\* the only way HandleRequest fails on a request it can encode: the write
\* fails, on a connection its peer has reset, and nothing is written
WriteFailed(c) == response[c].st = "error" /\ response[c].out = <<>> /\ peer[c] = "rst"

\* the response frame after its length prefix
Body(c) == Drop(response[c].out, 4)

\* the correlation id bytes of the request frame
RequestCorrelationBytes(c) == SubSeq(lastFrame[c], 9, 12)

\* the api version on the wire is one of 0..4
VersionInRange(c) == request[c].ApiVersion \in 0..4

\* the entries of the api-keys array of an ApiVersions response body
ApiKeyEntries(body) ==
    IF Len(body) < 7 \/ body[7] = 0 \/ Len(body) < 7 + 7 * (body[7] - 1) THEN <<>>
    ELSE [i \in 1..(body[7] - 1) |->
            [key |-> body[7 * i + 1] * 256 + body[7 * i + 2],
             min |-> body[7 * i + 3] * 256 + body[7 * i + 4],
             max |-> body[7 * i + 5] * 256 + body[7 * i + 6]]]

\* C1: every request with api key 18 and api version 0..4 gets one response
\* frame (unless the write fails) that starts with the request's correlation
\* id, has error code 0, and lists api key 18 with a max version of at least 4.
C1_ApiVersionsAnswer ==
    \A c \in Conns :
        (Handled(c) /\ request[c].ApiKey = 18 /\ VersionInRange(c)) =>
            \/ WriteFailed(c)
            \/ /\ response[c].st = "ok"
               /\ Len(Body(c)) >= 6
               /\ SubSeq(Body(c), 1, 4) = RequestCorrelationBytes(c)
               /\ SubSeq(Body(c), 5, 6) = <<0, 0>>
               /\ \E i \in DOMAIN ApiKeyEntries(Body(c)) :
                     /\ ApiKeyEntries(Body(c))[i].key = 18
                     /\ ApiKeyEntries(Body(c))[i].max >= 4

C1_Witness ==
    \E c \in Conns :
        /\ Answered(c) /\ request[c].ApiKey = 18 /\ request[c].ApiVersion = 3
        /\ request[c].CorrelationID < 0 /\ request[c].Payload # <<>>

\* C2: every request with api key 18 and an api version outside 0..4 gets
\* (unless the write fails) the frame 00 00 00 06, the request's correlation
\* id, 00 23: six bytes after a length prefix that says 6.
C2_UnsupportedVersionAnswer ==
    \A c \in Conns :
        (Handled(c) /\ request[c].ApiKey = 18 /\ ~VersionInRange(c)) =>
            \/ WriteFailed(c)
            \/ /\ response[c].st = "ok"
               /\ response[c].out = <<0, 0, 0, 6>> \o RequestCorrelationBytes(c) \o <<0, 35>>

C2_Witness ==
    \E c \in Conns :
        /\ Answered(c) /\ request[c].ApiKey = 18 /\ request[c].ApiVersion < 0
        /\ Len(response[c].out) = 10

\* the well-formed DescribeTopicPartitions payloads, each with the topic
\* names it lists
WellFormedRequests ==
    {[payload |-> DescribeTopicsPayload(id, names), names |-> names] :
        id \in ClientIDs, names \in TopicLists}

\* the sum of 26 + len(names[j]) for lo <= j <= hi
RECURSIVE TopicBytes(_, _, _)
TopicBytes(names, lo, hi) ==
    IF lo > hi THEN 0
    ELSE IF lo = hi THEN 26 + Len(names[lo])
    ELSE LET mid == (lo + hi) \div 2
         IN  TopicBytes(names, lo, mid) + TopicBytes(names, mid + 1, hi)

\* a DescribeTopicPartitions response body lists exactly these topics, each
\* with error code 3, its name and a zero topic id
ListsUnknownTopics(body, names) ==
    /\ Len(body) >= 10
    /\ body[10] = Len(names) + 1
    /\ \A i \in 1..Len(names) :
          LET at == 10 + TopicBytes(names, 1, i - 1)
              n == Len(names[i])
          IN  /\ Len(body) >= at + 19 + n
              /\ SubSeq(body, at + 1, at + 2) = <<0, 3>>
              /\ body[at + 3] = n + 1
              /\ SubSeq(body, at + 4, at + 3 + n) = names[i]
              /\ SubSeq(body, at + 4 + n, at + 19 + n) = Zeros(16)
    /\ Len(body) >= 10 + TopicBytes(names, 1, Len(names))

\* C3: every well-formed DescribeTopicPartitions request (api key 75, version
\* 0..4) that lists N names of 0..254 bytes gets a response (unless the write
\* fails) that lists exactly N topics, the i-th with error code 3, the i-th
\* name and an all-zero topic id.
C3_DescribeEchoesTopics ==
    \A c \in Conns : \A w \in WellFormedRequests :
        (/\ Handled(c) /\ request[c].ApiKey = 75 /\ VersionInRange(c)
         /\ request[c].Payload = w.payload) =>
            \/ WriteFailed(c)
            \/ /\ response[c].st = "ok"
               /\ ListsUnknownTopics(Body(c), w.names)

\* a single requested name of 91 bytes, the longest that is answered
C3_LongNameAnswered ==
    \E c \in Conns :
        /\ Answered(c) /\ request[c].ApiKey = 75 /\ VersionInRange(c)
        /\ Len(Body(c)) = 12 + 26 + 91

\* C4: every response written starts, after its length prefix, with the four
\* correlation id bytes of the request frame it answers.
C4_CorrelationEchoed ==
    \A c \in Conns :
        Answered(c) =>
            /\ Len(Body(c)) >= 4
            /\ SubSeq(Body(c), 1, 4) = RequestCorrelationBytes(c)

C4_Witness ==
    \E c \in Conns :
        /\ Answered(c) /\ request[c].ApiKey = 75 /\ VersionInRange(c)
        /\ request[c].CorrelationID = MinInt32
        /\ RequestCorrelationBytes(c) = <<128, 0, 0, 0>>
        /\ Len(Body(c)) > 12

\* the int32 at the head of a byte stream
WireLength(b) == Int32OfUint32(BigEndianUint32(SubSeq(b, 1, 4)))

\* a byte stream is a sequence of frames, each a length and that many bytes
RECURSIVE WellFramed(_)
WellFramed(b) ==
    \/ b = <<>>
    \/ /\ Len(b) >= 4
       /\ WireLength(b) >= 0
       /\ WireLength(b) <= Len(b) - 4
       /\ WellFramed(Drop(b, 4 + WireLength(b)))

\* C5: every frame sendRawResponse writes starts with a 4-byte length that is
\* the number of bytes following it in the frame, so that the bytes written to
\* a connection are a sequence of such frames.
C5_LengthPrefix ==
    \A c \in Conns :
        /\ Answered(c) =>
              /\ Len(response[c].out) >= 4
              /\ WireLength(response[c].out) = Len(response[c].out) - 4
        /\ WellFramed(outbuf[c])

C5_Witness ==
    \E c \in Conns :
        /\ Answered(c)
        /\ Len(response[c].out) > 30
        /\ Len(outbuf[c]) = 10 + Len(response[c].out)

\* C6: HandleRequest on a request whose api version is outside 0..4, whatever
\* its api key, writes the error-35 frame (on a connection that takes the
\* write) and returns nil: handleConnection stays in its loop, at the next
\* ReadRequest, with the connection open and registered.
C6_UnsupportedVersionKeepsConnection ==
    [][\A c \in Conns :
          (/\ pc[c] = "handle" /\ pc'[c] # "handle"
           /\ ~VersionInRange(c) /\ peer[c] # "rst") =>
              /\ outbuf'[c] = outbuf[c] \o <<0, 0, 0, 6>>
                                \o RequestCorrelationBytes(c) \o <<0, 35>>
              /\ pc'[c] = "read"
              /\ clients'[RemoteAddr(c)] = c]_vars

\* the error-35 answer to a request with api key 75 is followed by the answer
\* to the next request
C6_Witness ==
    \E c \in Conns :
        /\ Len(outbuf[c]) = 10 + 30
        /\ SubSeq(outbuf[c], 1, 10) = <<0, 0, 0, 6, 0, 0, 0, 3, 0, 35>>
        /\ Answered(c) /\ request[c].CorrelationID = 1
        /\ pc[c] = "read"

\* C7: when ReadRequest meets a frame whose declared length is less than 8,
\* handleConnection returns and closes this connection, and the process goes
\* on serving the others.
C7_ShortFrameClosesOnlyItsConnection ==
    [][\A c \in Conns :
          (/\ pc[c] = "read" /\ pc'[c] # "read"
           /\ Len(inbuf[c]) >= 4 /\ WireLength(inbuf[c]) < 8) =>
              /\ pc'[c] = "closed"
              /\ ~Aborted']_vars

\* C8: HandleRequest on a DescribeTopicPartitions request either answers it
\* or returns an error, on which handleConnection closes the connection: it
\* does not panic.
C8_DescribeNeverAborts ==
    \A c \in Conns :
        (Handled(c) /\ request[c].ApiKey = 75) =>
            \/ response[c].st = "ok"
            \/ response[c].st = "error" /\ pc[c] = "closed"

\* the bytes of a connection end before the frame they begin is complete
Incomplete(b) ==
    \/ Len(b) < 12
    \/ WireLength(b) >= 8 /\ Len(b) - 4 < WireLength(b)

\* C9: when the peer has closed and the unread bytes end before a frame is
\* complete, ReadRequest returns an error: handleConnection writes nothing,
\* returns and closes the connection.
C9_TruncatedFrameCloses ==
    [][\A c \in Conns :
          (/\ pc[c] = "read" /\ pc'[c] # "read"
           /\ peer[c] # "up" /\ Incomplete(inbuf[c])) =>
              /\ pc'[c] = "closed"
              /\ outbuf'[c] = outbuf[c]
              /\ response'[c] = response[c]
              /\ clients'[RemoteAddr(c)] = NoConn]_vars

C9_Witness ==
    \E c \in Conns :
        /\ pc[c] = "closed" /\ peer[c] = "fin"
        /\ Len(inbuf[c]) > 12 /\ Incomplete(inbuf[c])
        /\ Len(outbuf[c]) = 30 /\ response[c].st = "ok"

\* C10: ReadRequest on a frame with declared length L >= 8 takes exactly the
\* 4 + L bytes of the frame from the connection, and HandleRequest takes
\* none, so that the unread bytes begin with the next frame.
C10_ReadConsumesFrame ==
    [][\A c \in Conns :
          /\ (/\ pc[c] = "read" /\ pc'[c] = "handle"
              /\ Len(inbuf[c]) >= 4 /\ WireLength(inbuf[c]) >= 8) =>
                 /\ Len(inbuf[c]) >= 4 + WireLength(inbuf[c])
                 /\ lastFrame'[c] = SubSeq(inbuf[c], 1, 4 + WireLength(inbuf[c]))
                 /\ inbuf'[c] = Drop(inbuf[c], 4 + WireLength(inbuf[c]))
          /\ (pc[c] = "handle" /\ pc'[c] # "handle") => inbuf'[c] = inbuf[c]]_vars

\* the second frame of a stream was read after a first one with a payload
C10_Witness ==
    \E c \in Conns :
        /\ pc[c] = "handle" /\ outbuf[c] # <<>>
        /\ request[c].ApiKey = 75 /\ request[c].CorrelationID = 6
        /\ lastFrame[c] = Frame(75, 0, 6, DescribeTopicsPayload(<<107>>, <<TopicName(0, 2)>>))
        /\ Len(outbuf[c]) = 10 /\ inbuf[c] = <<>>

\* the request frames at the head of a byte stream, as successive calls of
\* ReadRequest take them: up to the first that is incomplete or not readable
RECURSIVE RequestFrames(_)
RequestFrames(b) ==
    LET r == ReadRequest(b, TRUE)
    IN  IF r.st # "ok" THEN <<>>
        ELSE <<SubSeq(b, 1, r.used)>> \o RequestFrames(Drop(b, r.used))

\* the response frames of the bytes written to a connection
RECURSIVE ResponseFrames(_)
ResponseFrames(b) ==
    IF Len(b) < 4 \/ WireLength(b) < 0 \/ WireLength(b) > Len(b) - 4 THEN <<>>
    ELSE <<SubSeq(b, 1, 4 + WireLength(b))>> \o ResponseFrames(Drop(b, 4 + WireLength(b)))

\* the bytes of sent[c] that the server has read
Consumed(c) == SubSeq(sent[c], 1, Len(sent[c]) - Len(inbuf[c]))

\* C11: on one connection the k-th response frame written carries the
\* correlation id of the k-th request frame the peer sent; HandleRequest
\* writes one frame for the request it answers; and when ReadRequest returns
\* the request k+1, the k responses to the requests before it are written.
C11_AnsweredInOrder ==
    [][\A c \in Conns :
          /\ Len(ResponseFrames(outbuf'[c])) <= Len(RequestFrames(sent'[c]))
          /\ \A k \in 1..Len(ResponseFrames(outbuf'[c])) :
                /\ Len(ResponseFrames(outbuf'[c])[k]) >= 8
                /\ SubSeq(ResponseFrames(outbuf'[c])[k], 5, 8)
                      = SubSeq(RequestFrames(sent'[c])[k], 9, 12)
          /\ (pc[c] = "handle" /\ pc'[c] = "read") =>
                Len(ResponseFrames(outbuf'[c])) = Len(ResponseFrames(outbuf[c])) + 1
          /\ (pc[c] = "read" /\ pc'[c] = "handle") =>
                /\ Len(RequestFrames(Consumed(c)')) = Len(ResponseFrames(outbuf[c])) + 1
                /\ ResponseFrames(outbuf[c]) = ResponseFrames(outbuf'[c])]_vars

\* two different requests were sent on a connection and both are answered,
\* with different correlation ids
C11_Witness ==
    \E c \in Conns :
        /\ pc[c] = "read" /\ Len(ResponseFrames(outbuf[c])) = 2
        /\ Len(RequestFrames(sent[c])) = 2
        /\ RequestFrames(sent[c])[1] # RequestFrames(sent[c])[2]
        /\ SubSeq(outbuf[c], 5, 8) # SubSeq(ResponseFrames(outbuf[c])[2], 5, 8)

\* C12: the ApiVersions response to a request of version 0..4 is, after the
\* length prefix, 26 bytes: the correlation id, error code 0, the count byte
\* 3 of a compact array of two entries, 18 / 0 / 4 and 75 / 0 / 0 each with
\* an empty tag byte, a zero throttle time and an empty tag byte.
C12_ApiVersionsLayout ==
    \A c \in Conns :
        (Answered(c) /\ request[c].ApiKey = 18 /\ VersionInRange(c)) =>
            /\ Len(Body(c)) = 26
            /\ WireLength(response[c].out) = 26
            /\ Body(c) = RequestCorrelationBytes(c)
                         \o <<0, 0>>
                         \o <<3>>
                         \o <<0, 18, 0, 0, 0, 4, 0>>
                         \o <<0, 75, 0, 0, 0, 0, 0>>
                         \o <<0, 0, 0, 0>>
                         \o <<0>>
            /\ Len(ApiKeyEntries(Body(c))) = 2

\* an ApiVersions request of version 4 with a payload was answered
C12_Witness ==
    \E c \in Conns :
        /\ Answered(c) /\ request[c].ApiKey = 18 /\ request[c].ApiVersion = 4
        /\ request[c].Payload # <<>> /\ Len(response[c].out) = 30
        /\ request[c].CorrelationID = 305419896

\* the layout of a DescribeTopicPartitions response body for the topics names
TopicsLayout(names) ==
    Concat([i \in 1..Len(names) |->
               <<0, 3>> \o <<Len(names[i]) + 1>> \o names[i] \o Zeros(16)
               \o <<0>> \o <<1>> \o <<0, 0, 13, 248>> \o <<0>>])

C14_GenericFallback ==
    \A c \in Conns :
        (Handled(c) /\ request[c].ApiKey \notin {18, 75} /\ VersionInRange(c)) =>
            \/ WriteFailed(c)
            \/ /\ response[c].st = "ok"
               /\ response[c].out = <<0, 0, 0, 6>> \o RequestCorrelationBytes(c) \o <<0, 0>>
               /\ Len(Body(c)) = 6

\* a request with a negative api key and a payload got the fallback answer
C14_Witness ==
    \E c \in Conns :
        /\ Answered(c) /\ request[c].ApiKey = -1 /\ request[c].ApiVersion = 4
        /\ request[c].Payload # <<>> /\ Len(response[c].out) = 10
        /\ request[c].CorrelationID = -1

\* the requests of a Kafka client, each with the topic names it lists
VarintRequests ==
    {[payload |-> VarintDescribeTopicsPayload(id, names), names |-> names] :
        id \in ClientIDs, names \in TopicLists}

\* the layout of the response topics with Kafka's compact strings
VarintTopicsLayout(names) ==
    Concat([i \in 1..Len(names) |->
               <<0, 3>> \o UnsignedVarint(Len(names[i]) + 1) \o names[i] \o Zeros(16)
               \o <<0>> \o <<1>> \o <<0, 0, 13, 248>> \o <<0>>])

\* C15: a DescribeTopicPartitions request whose topic count + 1 and name
\* lengths + 1 are unsigned varints is answered (unless the write fails) with
\* the names it lists, count and lengths again as unsigned varints, also
\* when a varint takes two bytes.
C15_VarintLengths ==
    \A c \in Conns : \A w \in VarintRequests :
        (/\ Handled(c) /\ request[c].ApiKey = 75 /\ VersionInRange(c)
         /\ request[c].Payload = w.payload) =>
            \/ WriteFailed(c)
            \/ /\ response[c].st = "ok"
               /\ Body(c) = RequestCorrelationBytes(c) \o <<0>> \o <<0, 0, 0, 0>>
                            \o UnsignedVarint(Len(w.names) + 1)
                            \o VarintTopicsLayout(w.names) \o <<255>> \o <<0>>

\* the same for the responses written when every count and length is less
\* than 127, so that its varint is one byte
C15_OneByteLengths ==
    \A c \in Conns : \A w \in VarintRequests :
        (/\ Handled(c) /\ request[c].ApiKey = 75 /\ VersionInRange(c)
         /\ request[c].Payload = w.payload /\ response[c].st = "ok"
         /\ Len(w.names) < 127 /\ \A i \in 1..Len(w.names) : Len(w.names[i]) < 127) =>
            Body(c) = RequestCorrelationBytes(c) \o <<0>> \o <<0, 0, 0, 0>>
                      \o UnsignedVarint(Len(w.names) + 1)
                      \o VarintTopicsLayout(w.names) \o <<255>> \o <<0>>

\* a request for two names of 127 bytes, lengths as two-byte varints, was
\* answered, and the answer is not the one that lists these names
C15_WrongNamesAnswered ==
    \E c \in Conns : \E w \in VarintRequests :
        /\ Answered(c) /\ request[c].ApiKey = 75 /\ request[c].Payload = w.payload
        /\ Len(w.names) = 2 /\ Len(w.names[1]) = 127
        /\ Body(c) # RequestCorrelationBytes(c) \o <<0>> \o <<0, 0, 0, 0>>
                     \o UnsignedVarint(Len(w.names) + 1)
                     \o VarintTopicsLayout(w.names) \o <<255>> \o <<0>>

\* The ApiVersions response of the Kafka protocol after the correlation id
\* (its header has no tag buffer in any version), with no tagged fields:
\*   versions 0..2: error code int16, an array with an int32 count of entries
\*     (api key, min version, max version: int16 each), and from version 1 on
\*     a throttle time int32;
\*   versions 3..4: error code int16, a compact array (count + 1 as unsigned
\*     varint) of the same entries each with a tag buffer, a throttle time
\*     int32, and a tag buffer.
FollowsApiVersionsSchema(v, b) ==
    IF v \in 0..2
    THEN LET tail == IF v >= 1 THEN 4 ELSE 0
         IN  /\ Len(b) >= 6 + tail
             /\ WireLength(SubSeq(b, 3, 6)) >= 0
             /\ (Len(b) - 6 - tail) % 6 = 0
             /\ (Len(b) - 6 - tail) \div 6 = WireLength(SubSeq(b, 3, 6))
    ELSE /\ v \in 3..4
         /\ Len(b) >= 3
         /\ b[3] \in 1..127
         /\ Len(b) = 3 + 7 * (b[3] - 1) + 4 + 1
         /\ \A i \in 1..(b[3] - 1) : b[3 + 7 * i] = 0
         /\ b[Len(b)] = 0

\* C16: the ApiVersions response to a request of version v in 0..4 has, after
\* the correlation id, the shape the Kafka protocol defines for version v.
C16_ApiVersionsBodyPerVersion ==
    \A c \in Conns :
        (Answered(c) /\ request[c].ApiKey = 18 /\ VersionInRange(c)) =>
            FollowsApiVersionsSchema(request[c].ApiVersion, Drop(Body(c), 4))

\* the same for the versions 3 and 4
C16_FlexibleVersions ==
    \A c \in Conns :
        (Answered(c) /\ request[c].ApiKey = 18 /\ request[c].ApiVersion \in 3..4) =>
            FollowsApiVersionsSchema(request[c].ApiVersion, Drop(Body(c), 4))

\* the bytes handleConnection writes, as the only connection of the server,
\* to a peer that sends the bytes b and takes every write: it reads and
\* answers request after request until a read or a handler does not return nil
RECURSIVE Serve(_)
Serve(b) ==
    LET r == ReadRequest(b, TRUE)
        h == Dispatch(r.req)
    IN  IF r.st # "ok" \/ h.st # "ok" THEN <<>>
        ELSE sendRawResponse(h.data) \o Serve(Drop(b, r.used))

Prefix(a, b) == Len(a) <= Len(b) /\ SubSeq(b, 1, Len(a)) = a

\* the handler of connection c takes no further step: it has returned or
\* panicked, it waits for bytes, or the process is gone
Stopped(c) ==
    \/ Aborted
    \/ pc[c] \notin {"read", "handle"}
    \/ pc[c] = "read" /\ ReadRequest(inbuf[c], peer[c] # "up").st = "wait"

\* C17: whatever the other connections do, the bytes written to a connection
\* are the beginning of what the server writes to it as its only connection,
\* and all of it once its handler has stopped (on a connection that was not
\* reset): an error or a failure on another connection takes nothing from it.
C17_ConnectionsIndependent ==
    \A c \in Conns :
        /\ Prefix(outbuf[c], Serve(sent[c]))
        /\ (Stopped(c) /\ pc[c] # "none" /\ peer[c] # "rst") => outbuf[c] = Serve(sent[c])

\* the same, as long as no other connection's handler has panicked
C17_IndependentUnlessAborted ==
    \A c \in Conns :
        /\ Prefix(outbuf[c], Serve(sent[c]))
        /\ (/\ Stopped(c) /\ pc[c] # "none" /\ peer[c] # "rst"
            /\ \A d \in Conns \ {c} : pc[d] # "panic") => outbuf[c] = Serve(sent[c])

\* a connection was closed on a handler error while another, which has sent
\* two requests, got both answers
C17_OtherConnectionServed ==
    \E c, d \in Conns :
        /\ c # d /\ pc[c] = "closed" /\ response[c].st = "error" /\ peer[c] = "up"
        /\ pc[d] = "read" /\ Len(ResponseFrames(outbuf[d])) = 2
        /\ outbuf[d] = Serve(sent[d])

C19_WritesStayInBounds ==
    \A c \in Conns : \A w \in WellFormedRequests :
        (/\ pc[c] # "handle" /\ response[c].st # "none"
         /\ request[c].ApiKey = 75 /\ VersionInRange(c)
         /\ request[c].Payload = w.payload) =>
            /\ response[c].st # "panic"
            /\ pc[c] # "panic"

\* the range of versions the server's ApiVersions response gives for an api key
AdvertisedVersions(apiKey) ==
    LET entries == ApiKeyEntries(handleApiVersionsRequest(NoRequest).data)
    IN  {v \in -32768..32767 :
            \E i \in DOMAIN entries :
                entries[i].key = apiKey /\ entries[i].min <= v /\ v <= entries[i].max}

\* HandleRequest answered request[c] with the error-35 frame
Rejected(c) ==
    /\ response[c].st = "ok"
    /\ response[c].out = <<0, 0, 0, 6>> \o RequestCorrelationBytes(c) \o <<0, 35>>

\* C20: a request for api key 18 or 75 is rejected with error 35 exactly
\* when its version is outside the range the server's ApiVersions response
\* gives for that key (0..4 for 18, 0..0 for 75); otherwise it is handled.
C20_HandledIffAdvertised ==
    \A c \in Conns :
        (Handled(c) /\ ~WriteFailed(c) /\ request[c].ApiKey \in {18, 75}) =>
            /\ AdvertisedVersions(18) = 0..4
            /\ AdvertisedVersions(75) = 0..0
            /\ Rejected(c) <=> request[c].ApiVersion \notin AdvertisedVersions(request[c].ApiKey)

\* the same for api key 18 alone
C20_ApiVersionsKeyOnly ==
    \A c \in Conns :
        (Handled(c) /\ ~WriteFailed(c) /\ request[c].ApiKey = 18) =>
            /\ AdvertisedVersions(18) = 0..4
            /\ AdvertisedVersions(75) = 0..0
            /\ Rejected(c) <=> request[c].ApiVersion \notin AdvertisedVersions(18)

\* a DescribeTopicPartitions request of version 4 was answered with the
\* topic it lists
C20_UnadvertisedVersionHandled ==
    \E c \in Conns :
        /\ Answered(c) /\ request[c].ApiKey = 75 /\ request[c].ApiVersion = 4
        /\ Len(Body(c)) = 12 + 26 + 1
        /\ SubSeq(Body(c), 11, 12) = <<0, 3>>

\* C21: when handleDescribeTopicPartitionsRequest returns an error on a
\* payload it cannot parse, HandleRequest has written nothing for that
\* request: the bytes written to the connection are those of the earlier
\* responses, and handleConnection returns and closes the connection.
C21_ParseErrorWritesNothing ==
    [][\A c \in Conns :
          (/\ pc[c] = "handle" /\ pc'[c] # "handle"
           /\ request[c].ApiKey = 75 /\ VersionInRange(c)
           /\ handleDescribeTopicPartitionsRequest(request[c]).st = "error") =>
              /\ outbuf'[c] = outbuf[c]
              /\ response'[c] = [st |-> "error", out |-> <<>>]
              /\ pc'[c] = "closed"
              /\ clients'[RemoteAddr(c)] = NoConn]_vars

\* a payload that ends after the client id was met after an answered
\* request, on a connection whose peer is up
C21_Witness ==
    \E c \in Conns :
        /\ pc[c] = "closed" /\ peer[c] = "up" /\ response[c].st = "error"
        /\ request[c].ApiKey = 75 /\ request[c].Payload = <<0, 0>>
        /\ Len(outbuf[c]) = 30 /\ WellFramed(outbuf[c])

\* a goroutine of the server can take a step without anything from a peer
ServerCanStep ==
    \/ acceptor.pc \in {"check", "register", "spawn"}
    \/ acceptor.pc = "accept" /\ listener = "closed"
    \/ \E c \in Conns :
          \/ pc[c] \in {"check", "handle", "close", "unregister", "done"}
          \/ pc[c] = "read" /\ ReadFrom(c).st # "wait"

\* no address was given to two connections
NoAddressReused ==
    \A c, d \in Conns : (c # d /\ pc[c] # "none" /\ pc[d] # "none") => addr[c] # addr[d]

\* C22: a call of Stop returns whatever the connected clients do: while it
\* waits for the goroutines, some goroutine of the server can always take a
\* step towards its exit without anything from a peer (closing a connection
\* unblocks the read on it).
C22_StopReturns ==
    \A t \in Stoppers :
        (stopper[t] = "wait" /\ ~Aborted) => (wg = 0 \/ ServerCanStep)

\* C22 holds as long as no remote address is reused
C22_StopReturnsWithoutReuse ==
    \A t \in Stoppers :
        (stopper[t] = "wait" /\ ~Aborted /\ NoAddressReused) => (wg = 0 \/ ServerCanStep)

\* Stop waits for a handler that is blocked in a read on a connection Stop
\* has not closed, whose peer is up and has nothing in flight
C22_StopWaitsForever ==
    \E c \in Conns :
        /\ stopper["first"] = "wait" /\ stopper["second"] = "idle"
        /\ pc[c] = "read" /\ connOpen[c] /\ peer[c] = "up" /\ inbuf[c] = <<>>
        /\ wg = 1 /\ ~ServerCanStep

\* C23: when Stop has returned, the listener is closed, the accept loop and
\* every handler goroutine have exited, every connection the server accepted
\* is closed, and the client registry is empty.
C23_StoppedClean ==
    \A t \in Stoppers :
        stopper[t] = "returned" =>
            /\ listener = "closed"
            /\ acceptor.pc = "done"
            /\ \A c \in Conns : pc[c] \in {"none", "closed"} /\ ~connOpen[c]
            /\ \A a \in Conns : clients[a] = NoConn

\* Stop has returned after two connections were accepted; their peers are
\* still up, so it is the server that ended both, and one had been answered
C23_Witness ==
    /\ stopper["first"] = "returned"
    /\ \A c \in {1, 2} : pc[c] = "closed" /\ peer[c] = "up"
    /\ \E c \in {1, 2} : Len(outbuf[c]) = 30 /\ response[c].st = "ok"

\* C24: each connection whose handler goroutine is running, from its start
\* to its own removal from the registry, is in the registry under its remote
\* address, also when the address is reused by a new connection while the
\* handler of the previous one is exiting.
C24_RunningIsRegistered ==
    \A c \in Conns :
        (Running(c) \/ pc[c] \in {"close", "unregister"}) => clients[RemoteAddr(c)] = c

\* C24 holds as long as no remote address is reused
C24_RegisteredWithoutReuse ==
    NoAddressReused => C24_RunningIsRegistered

\* the handler of the second connection serves it while the registry no
\* longer holds it: the first connection's handler removed the address
C24_RunningUnregistered ==
    /\ pc[1] \in {"done", "closed"} /\ Running(2) /\ connOpen[2]
    /\ RemoteAddr(1) = RemoteAddr(2)
    /\ clients[RemoteAddr(2)] = NoConn

\* what the deferred function of a handler does, in its order
ExitOrder == <<"close", "unregister", "done">>

\* the goroutines the wait group has counted and not seen done
Counted ==
    (IF acceptor.pc = "done" THEN 0 ELSE 1)
    + Cardinality({c \in Conns : Running(c) \/ pc[c] \in {"close", "unregister", "done"}})

\* C25: a handler that exits closes its connection, then removes the
\* connection's address from the registry, then signals the wait group, in
\* this order and once each: what it has done is a beginning of ExitOrder, all
\* of it once it has exited, and the connection, the registry and the wait
\* group show it.
C25_ExitOrder ==
    /\ \A c \in Conns :
          /\ Len(exitlog[c]) <= 3
          /\ exitlog[c] = SubSeq(ExitOrder, 1, Len(exitlog[c]))
          /\ Len(exitlog[c]) = CASE pc[c] = "unregister" -> 1
                                 [] pc[c] = "done" -> 2
                                 [] pc[c] = "closed" -> 3
                                 [] OTHER -> 0
          /\ Len(exitlog[c]) >= 1 => ~connOpen[c]
          /\ Len(exitlog[c]) >= 2 => clients[RemoteAddr(c)] # c
    /\ wg = Counted

\* two handlers have exited: one on the end of its peer's stream, the other,
\* whose peer is up, after it was answered and the server was stopped
C25_Witness ==
    /\ pc[1] = "closed" /\ peer[1] = "fin" /\ exitlog[1] = ExitOrder
    /\ pc[2] = "closed" /\ peer[2] = "up" /\ exitlog[2] = ExitOrder
    /\ response[2].st = "ok" /\ shutdown
    /\ wg = 0

\* the requests of CodecSpec up to their last topic entry
RequestPrefixes ==
    {DescribeTopicsPrefix(id, names) : id \in ClientIDs, names \in TopicLists}

\* the request cut after its last topic entry
WithoutTail(req, prefix) ==
    [req EXCEPT !.Length = 8 + Len(prefix), !.Payload = prefix]

\* C26: the outcome of a DescribeTopicPartitions request does not depend on
\* the bytes after its last topic entry: it is (unless the write fails) what
\* the handler does with the same request cut after that entry.
C26_TailIgnored ==
    \A c \in Conns : \A prefix \in RequestPrefixes :
        (/\ Handled(c) /\ request[c].ApiKey = 75 /\ VersionInRange(c)
         /\ Len(request[c].Payload) >= Len(prefix)
         /\ SubSeq(request[c].Payload, 1, Len(prefix)) = prefix) =>
            \/ WriteFailed(c)
            \/ response[c] = HandleRequest(TRUE, WithoutTail(request[c], prefix))

\* a request for one topic with a partition limit and a cursor after its
\* topic entry was answered
C26_Witness ==
    \E c \in Conns : \E prefix \in RequestPrefixes :
        /\ Answered(c) /\ request[c].ApiKey = 75 /\ VersionInRange(c)
        /\ request[c].Payload = prefix \o <<0, 0, 0, 1, 1, 97, 0>>
        /\ Len(Body(c)) > 12

\* C27: Stop can be called more than once: no call of Stop, made after or
\* during another, aborts the process.
C27_StopTwice == \A t \in Stoppers : stopper[t] # "panic"

\* the first call has returned and the second one has aborted the process
C27_SecondStopAborts ==
    stopper["first"] = "returned" /\ stopper["second"] = "panic" /\ Aborted

\* a single call of Stop does not abort the process
C27_OneStopReturns ==
    stopper["second"] = "idle" => stopper["first"] # "panic"

\* single well-formed requests: the DescribeTopicPartitions requests, and
\* every header on a payload its handler accepts
WellFormedStreams ==
    DescribeFrames
    \cup {Frame(k, v, id, p) :
            k \in ApiKeyValues, v \in Int16Values, id \in Int32Values,
            p \in {DescribeTopicsPayload(<<>>, <<TopicName(0, 1)>>)}}
    \cup {Frame(k, v, id, <<>>) :
            k \in ApiKeyValues \ {DescribeTopicPartitionsKey},
            v \in Int16Values, id \in Int32Values}

\* C28: the server does not end a connection by itself: a connection whose
\* peer is up and has sent only a well-formed request is being served or
\* waits for the next request.
C28_WellBehavedStaysOpen ==
    \A c \in Conns :
        (pc[c] # "none" /\ peer[c] = "up" /\ sent[c] \in WellFormedStreams) =>
            pc[c] \in {"read", "handle"}

\* the connection of a peer that sent one well-formed request for a name of
\* 92 bytes or more is lost with the process
C28_LostByOverrun ==
    \E c \in Conns :
        /\ pc[c] = "panic" /\ peer[c] = "up" /\ sent[c] \in DescribeFrames
        /\ inbuf[c] = <<>> /\ response[c] = [st |-> "panic", out |-> <<>>]

\* C28 holds but for the abort of the process
C28_StaysOpenUnlessAborted ==
    \A c \in Conns :
        (pc[c] # "none" /\ peer[c] = "up" /\ sent[c] \in WellFormedStreams) =>
            pc[c] \in {"read", "handle", "panic"}

\* the error code of a response frame
ResponseErrorCode(c) == SubSeq(Body(c), 5, 6)

\* C29: in the configuration-driven variant an ApiVersions request with an
\* api version in 0..4 is answered (unless the write fails) with error code
\* 0, and one with a version outside 0..4 with only the correlation id and
\* error code 35.
C29_ConfigApiVersions ==
    \A c \in Conns :
        (Handled(c) /\ request[c].ApiKey = 18) =>
            \/ WriteFailed(c)
            \/ /\ response[c].st = "ok"
               /\ Len(Body(c)) >= 6
               /\ SubSeq(Body(c), 1, 4) = RequestCorrelationBytes(c)
               /\ IF VersionInRange(c)
                  THEN ResponseErrorCode(c) = <<0, 0>>
                  ELSE Body(c) = RequestCorrelationBytes(c) \o <<0, 35>>

\* an ApiVersions request of version 0 was answered with only the
\* correlation id and error code 35
C29_VersionZeroRejected ==
    \E c \in Conns :
        /\ Answered(c) /\ request[c].ApiKey = 18 /\ request[c].ApiVersion = 0
        /\ response[c].out = <<0, 0, 0, 6>> \o RequestCorrelationBytes(c) \o <<0, 35>>

\* what the variant does: error code 0 for the versions 3..4, and only the
\* correlation id and error code 35 for every other version
C29_VersionsThreeToFour ==
    \A c \in Conns :
        (Handled(c) /\ request[c].ApiKey = 18) =>
            \/ WriteFailed(c)
            \/ /\ response[c].st = "ok"
               /\ IF request[c].ApiVersion \in 3..4
                  THEN Len(Body(c)) = 26 /\ ResponseErrorCode(c) = <<0, 0>>
                       /\ SubSeq(Body(c), 1, 4) = RequestCorrelationBytes(c)
                  ELSE Body(c) = RequestCorrelationBytes(c) \o <<0, 35>>

=============================================================================
